---------------------------- MODULE Spec2Model ----------------------------
(***************************************************************************)
(* RadPro serial integration: the RadProIO transport (radpro_io.py) and    *)
(* the RadProCoordinator poll cycle (coordinator.py).                      *)
(*                                                                         *)
(* Encoding.  A Python str / bytes value is a sequence of one-character    *)
(* strings; the token "0x80" stands for one non-ASCII byte.  An Optional   *)
(* value is a sequence of length 0 (None) or 1 (Some(v)).  Times are whole *)
(* seconds.  Rates are kept as exact ratios and rounded, as round() does,  *)
(* only when the snapshot is built: cps and usvh in 1/1000, cpm in 1/10.   *)
(***************************************************************************)
EXTENDS Integers, Sequences, FiniteSets, TLC

VARIABLES
    serial,                 \* RadProIO.serial: None or Some(handle)
    nOpened,                \* number of serial.Serial objects constructed so far
    isOpen,                 \* handles opened and not closed (Serial.is_open)
    failed,                 \* handles on which write()/readline() has raised
    deviceLine,             \* SpecIO: the line the device answers with
    device,                 \* SpecAux: the line the device answers with, per key
    inbuf,                  \* SpecLate: lines received and not yet read from the port
    tasks,                  \* SpecDriver: the coroutines that await an executor job
    ops,                    \* port operations performed by the last call
    rx,                     \* bytes of the last readline() that returned in it
    call,                   \* name of the last call
    ret,                    \* value returned by the last call (Optional)
    exc,                    \* exception raised by the last call, or "none"
    cause,                  \* the errors the raised exception was raised from
    config,                 \* <<interval_s, sensitivity_interval_s, deviceinfo_interval_s>>
    job,                    \* SpecThreads: the cycle and the executor jobs in flight
    phase,                  \* coordinator lifecycle
    device_info,            \* RadProCoordinator.device_info
    _prev_pulsecount,       \* Optional int
    _prev_ts,               \* Optional time
    _sensitivity,           \* Optional ratio
    _samples,               \* sequence of <<timestamp, dp, dt>>
    _sensitivity_interval,
    _deviceinfo_interval,
    _update_counter,
    data,                   \* DataUpdateCoordinator.data: last published snapshot
    locals,                 \* locals of the last _async_update_data call
    clock                   \* hass.loop.time() when it was last read

ioVars == <<serial, nOpened, isOpen, failed>>
callVars == <<ops, rx, call, ret, exc, cause>>
coVars == <<phase, device_info, _prev_pulsecount, _prev_ts, _sensitivity, _samples,
            _sensitivity_interval, _deviceinfo_interval, _update_counter, data,
            locals, clock>>
vars == <<serial, nOpened, isOpen, failed, deviceLine, device, inbuf, tasks, ops, rx, call, ret,
          exc, cause,
          config, job, phase, device_info, _prev_pulsecount, _prev_ts, _sensitivity, _samples,
          _sensitivity_interval, _deviceinfo_interval, _update_counter, data,
          locals, clock>>

-----------------------------------------------------------------------------
(* Bounds *)

MaxHandles == 3
MaxLen == 4
MaxCycles == 3
MaxElapsed == 6

-----------------------------------------------------------------------------
(* Optional values and Python truthiness *)

None == <<>>
Some(v) == <<v>>
Val(o) == o[1]

\* `if s:` on an Optional[str]: neither None nor the empty string
TruthyStr(o) == o /= None /\ Val(o) /= <<>>

-----------------------------------------------------------------------------
(* str / bytes primitives *)

NonAscii == {"0x80"}
Whitespace == {" ", "\t", "\n", "\r"}
Digits == {"0", "1", "2", "3", "4", "5", "6", "7", "8", "9"}

\* bytes.decode("ascii", errors="ignore")
decode_ascii_ignore(b) == SelectSeq(b, LAMBDA c : c \notin NonAscii)

RECURSIVE lstrip(_)
lstrip(s) == IF s = <<>> THEN s
             ELSE IF Head(s) \in Whitespace THEN lstrip(Tail(s)) ELSE s

RECURSIVE rstrip(_)
rstrip(s) == IF s = <<>> THEN s
             ELSE IF s[Len(s)] \in Whitespace THEN rstrip(SubSeq(s, 1, Len(s) - 1)) ELSE s

\* str.strip()
strip(s) == rstrip(lstrip(s))

\* str.startswith(p)
startswith(s, p) == Len(s) >= Len(p) /\ SubSeq(s, 1, Len(p)) = p

\* s[n:]
slice_from(s, n) == SubSeq(s, n + 1, Len(s))


-----------------------------------------------------------------------------
(* RadProIO (radpro_io.py).  An operator takes the machine record m        *)
(* (the instance's serial reference, the port objects behind it, the log   *)
(* of port operations, and the outcome ret / exc of the call so far) and   *)
(* returns the record after the call.                                      *)

Op(name, h, bytes) == [op |-> name, h |-> h, data |-> bytes]

\* cause: the chain of underlying errors (`raise ... from e`), outermost first
Returned(m, v) == [m EXCEPT !.ret = v, !.exc = "none", !.cause = <<>>]
Raised(m, e, why) == [m EXCEPT !.ret = None, !.exc = e, !.cause = why]

\* What the environment does to one exchange: whether serial.Serial() can
\* open the port, whether write() or readline() raises, and the bytes read.
Outcome(openOk, io, line) == [open |-> openOk, io |-> io, line |-> line]

\* RadProIO.open: the new Serial object replaces self.serial; a port that
\* cannot be opened raises serial.SerialException and assigns nothing.
open(m, openOk) ==
    IF openOk
    THEN LET h == m.nOpened + 1
         IN Returned([m EXCEPT !.serial = Some(h), !.nOpened = h,
                               !.isOpen = @ \cup {h},
                               !.ops = Append(@, Op("open", h, <<>>))], None)
    ELSE Raised([m EXCEPT !.ops = Append(@, Op("open_failed", 0, <<>>))],
                "SerialException", <<"could not open port">>)

\* Mutant: is_open is read without testing that a connection is held
close_unguarded(m) ==
    IF m.serial = None
    THEN Raised(m, "AttributeError", <<"'NoneType' object has no attribute 'is_open'">>)
    ELSE Returned([m EXCEPT !.isOpen = @ \ {Val(m.serial)},
                            !.ops = Append(@, Op("close", Val(m.serial), <<>>)),
                            !.serial = None], None)

\* RadProIO.close
close(m) ==
    LET m1 == IF m.serial /= None /\ Val(m.serial) \in m.isOpen
              THEN [m EXCEPT !.isOpen = @ \ {Val(m.serial)},
                             !.ops = Append(@, Op("close", Val(m.serial), <<>>))]
              ELSE m
    IN Returned([m1 EXCEPT !.serial = None], None)

\* Mutant: the except clause raises but keeps the reference to the handle
on_serial_error_keeps_handle(m, h, e) ==
    Raised([m EXCEPT !.failed = @ \cup {h}], "RadProIOError", <<e>>)

\* RadProIO.query, the except clause: drop the reference, raise RadProIOError
on_serial_error(m, h, e) ==
    Raised([m EXCEPT !.serial = None, !.failed = @ \cup {h}], "RadProIOError", <<e>>)

\* Mutant: the success marker alone is removed, response[2:]
parse_response_slice2(response_bytes) ==
    IF response_bytes = <<>>
    THEN None
    ELSE LET response == strip(decode_ascii_ignore(response_bytes))
         IN IF startswith(response, <<"O", "K">>)
            THEN Some(strip(slice_from(response, 2)))
            ELSE None

\* RadProIO.query, from the `if not response_bytes` test to the return
parse_response(response_bytes) ==
    IF response_bytes = <<>>
    THEN None
    ELSE LET response == strip(decode_ascii_ignore(response_bytes))
         IN IF startswith(response, <<"O", "K">>)
            THEN Some(strip(slice_from(response, 3)))
            ELSE None

\* Mutant: a read that times out is followed by a second write and read
exchange_retrying(m, request, o) ==
    LET h == Val(m.serial)
        w == [m EXCEPT !.ops = Append(@, Op("write", h, request \o <<"\n">>))]
        r == [w EXCEPT !.ops = Append(@, Op("readline", h, <<>>))]
        again == [r EXCEPT !.ops = @ \o <<Op("write", h, request \o <<"\n">>),
                                          Op("readline", h, <<>>)>>]
    IN IF o.io = "write" THEN on_serial_error(w, h, "write failed")
       ELSE IF o.io = "read" THEN on_serial_error(r, h, "readline failed")
       ELSE IF o.line = <<>>
       THEN Returned([again EXCEPT !.rx = Some(o.line)], parse_response(o.line))
       ELSE Returned([r EXCEPT !.rx = Some(o.line)], parse_response(o.line))

\* RadProIO.query, the try block on the held handle
exchange(m, request, o) ==
    LET h == Val(m.serial)
        w == [m EXCEPT !.ops = Append(@, Op("write", h, request \o <<"\n">>))]
        r == [w EXCEPT !.ops = Append(@, Op("readline", h, <<>>))]
    IN IF o.io = "write" THEN on_serial_error(w, h, "write failed")
       ELSE IF o.io = "read" THEN on_serial_error(r, h, "readline failed")
       ELSE Returned([r EXCEPT !.rx = Some(o.line)], parse_response(o.line))

\* RadProIO.query
query(m, request, o) ==
    LET m1 == IF m.serial = None THEN open(m, o.open) ELSE Returned(m, None)
    IN IF m1.exc /= "none" THEN m1 ELSE exchange(m1, request, o)

\* RadProIO.get / RadProIO.set
get(m, key, o) == query(m, <<"GET", " ", key>>, o)
set(m, key, value, o) == query(m, <<"SET", " ", key, " ", value>>, o)

-----------------------------------------------------------------------------
(* Python number parsing and rounding *)

DigitSeq == <<"0", "1", "2", "3", "4", "5", "6", "7", "8", "9">>
DigitVal(c) == (CHOOSE i \in 1..10 : DigitSeq[i] = c) - 1

RECURSIVE DigitsValue(_)
DigitsValue(s) == IF s = <<>> THEN 0
                  ELSE 10 * DigitsValue(SubSeq(s, 1, Len(s) - 1)) + DigitVal(s[Len(s)])

RECURSIVE Pow10(_)
Pow10(n) == IF n = 0 THEN 1 ELSE 10 * Pow10(n - 1)

RECURSIVE Gcd(_, _)
Gcd(a, b) == IF b = 0 THEN a ELSE Gcd(b, a % b)

Abs(x) == IF x < 0 THEN -x ELSE x

\* An exact ratio n/d with d > 0, in lowest terms
Ratio(n, d) == LET g == Gcd(Abs(n), d) IN [n |-> n \div g, d |-> d \div g]

Signed(s) == s /= <<>> /\ Head(s) \in {"+", "-"}
Unsigned(s) == IF Signed(s) THEN Tail(s) ELSE s
Sign(s) == IF s /= <<>> /\ Head(s) = "-" THEN -1 ELSE 1

\* int(s) accepts: surrounding whitespace, an optional sign, one or more digits
int_ok(s) ==
    LET b == Unsigned(strip(s))
    IN b /= <<>> /\ \A i \in 1..Len(b) : b[i] \in Digits

int(s) == Sign(strip(s)) * DigitsValue(Unsigned(strip(s)))

\* float(s) accepts: surrounding whitespace, an optional sign, digits with at
\* most one decimal point and at least one digit
float_ok(s) ==
    LET b == Unsigned(strip(s))
    IN /\ \A i \in 1..Len(b) : b[i] \in Digits \cup {"."}
       /\ Cardinality({i \in 1..Len(b) : b[i] = "."}) <= 1
       /\ \E i \in 1..Len(b) : b[i] \in Digits

float(s) ==
    LET b == Unsigned(strip(s))
        dot == IF \E i \in 1..Len(b) : b[i] = "."
               THEN CHOOSE i \in 1..Len(b) : b[i] = "." ELSE Len(b) + 1
        whole == SubSeq(b, 1, dot - 1)
        frac == SubSeq(b, dot + 1, Len(b))
    IN Ratio(Sign(strip(s)) * (DigitsValue(whole) * Pow10(Len(frac)) + DigitsValue(frac)),
             Pow10(Len(frac)))

\* round(n / d, k) in units of 10^-k is RoundHalfEven(n * 10^k, d), d > 0
RoundHalfEven(n, d) ==
    LET q == n \div d
        r == n % d
    IN IF 2 * r < d THEN q
       ELSE IF 2 * r > d THEN q + 1
       ELSE IF q % 2 = 0 THEN q ELSE q + 1

\* str.split(sep) for a one-character separator
RECURSIVE split(_, _)
split(s, sep) ==
    IF \E i \in 1..Len(s) : s[i] = sep
    THEN LET i == CHOOSE j \in 1..Len(s) : s[j] = sep /\ \A k \in 1..(j - 1) : s[k] /= sep
         IN <<SubSeq(s, 1, i - 1)>> \o split(SubSeq(s, i + 1, Len(s)), sep)
    ELSE <<s>>

-----------------------------------------------------------------------------
(* RadProCoordinator (coordinator.py) *)

AVERAGING_WINDOW_S == 5

\* DeviceInfo(): every field None
NewDeviceInfo == [hardware_id |-> None, software_id |-> None, device_id |-> None,
                  battery_voltage |-> None]

NoLocals == [pulsecount |-> None, now |-> None, dt |-> None, dp |-> None, cpm |-> None,
             evicted |-> 0]

\* Mutant: the single-field branch builds the identity anew
parse_device_id_resetting(di, raw) ==
    LET parts == split(raw, ";")
    IN IF Len(parts) >= 3
       THEN [di EXCEPT !.hardware_id = Some(strip(parts[1])),
                       !.software_id = Some(strip(parts[2])),
                       !.device_id = Some(strip(parts[3]))]
       ELSE IF Len(parts) = 1
       THEN [di EXCEPT !.hardware_id = None, !.software_id = None,
                       !.device_id = Some(strip(raw))]
       ELSE di

\* Mutant: `else` in place of `elif len(parts) == 1`
parse_device_id_else_fallback(di, raw) ==
    LET parts == split(raw, ";")
    IN IF Len(parts) >= 3
       THEN [di EXCEPT !.hardware_id = Some(strip(parts[1])),
                       !.software_id = Some(strip(parts[2])),
                       !.device_id = Some(strip(parts[3]))]
       ELSE [di EXCEPT !.device_id = Some(strip(raw))]

\* _read_device_info, the branches on the number of ';'-separated fields
parse_device_id(di, raw) ==
    LET parts == split(raw, ";")
    IN IF Len(parts) >= 3
       THEN [di EXCEPT !.hardware_id = Some(strip(parts[1])),
                       !.software_id = Some(strip(parts[2])),
                       !.device_id = Some(strip(parts[3]))]
       ELSE IF Len(parts) = 1
       THEN [di EXCEPT !.device_id = Some(strip(raw))]
       ELSE di

\* _read_device_info, what is done with the value raw_device_id returned
store_device_id(a, raw_device_id) ==
    IF TruthyStr(raw_device_id)
    THEN Returned([a EXCEPT !.device_info = parse_device_id(@, Val(raw_device_id))], None)
    ELSE Returned(a, None)

\* _read_device_info, the deviceId half
read_device_id(m, o) ==
    LET a == get(m, "deviceId", o)
    IN IF a.exc /= "none" THEN a ELSE store_device_id(a, a.ret)

\* Mutant: a payload that is not a number clears the stored voltage
read_battery_voltage_clearing(m, o) ==
    LET b == get(m, "deviceBatteryVoltage", o)
    IN IF b.exc /= "none" THEN b
       ELSE IF TruthyStr(b.ret) /\ float_ok(Val(b.ret))
       THEN Returned([b EXCEPT !.device_info.battery_voltage = Some(float(Val(b.ret)))], None)
       ELSE IF TruthyStr(b.ret)
       THEN Returned([b EXCEPT !.device_info.battery_voltage = None], None)
       ELSE Returned(b, None)

\* _read_device_info, what is done with the value bv returned
store_battery_voltage(b, bv) ==
    IF TruthyStr(bv) /\ float_ok(Val(bv))
    THEN Returned([b EXCEPT !.device_info.battery_voltage = Some(float(Val(bv)))], None)
    ELSE Returned(b, None)

\* _read_device_info, the deviceBatteryVoltage half
read_battery_voltage(m, o) ==
    LET b == get(m, "deviceBatteryVoltage", o)
    IN IF b.exc /= "none" THEN b ELSE store_battery_voltage(b, b.ret)

_read_device_info(m, oId, oBv) ==
    LET a == read_device_id(m, oId)
    IN IF a.exc /= "none" THEN a ELSE read_battery_voltage(a, oBv)

\* Mutant: float(s) outside a try block, its ValueError escapes
_read_sensitivity_unguarded(m, o) ==
    LET a == get(m, "tubeSensitivity", o)
    IN IF a.exc /= "none" THEN a
       ELSE IF TruthyStr(a.ret) /\ float_ok(Val(a.ret))
       THEN Returned([a EXCEPT !._sensitivity = Some(float(Val(a.ret)))], None)
       ELSE IF TruthyStr(a.ret)
       THEN Raised(a, "ValueError", <<"could not convert string to float">>)
       ELSE Returned(a, None)

\* _read_sensitivity, what is done with the value s returned
store_sensitivity(a, s) ==
    IF TruthyStr(s) /\ float_ok(Val(s))
    THEN Returned([a EXCEPT !._sensitivity = Some(float(Val(s)))], None)
    ELSE Returned(a, None)

_read_sensitivity(m, o) ==
    LET a == get(m, "tubeSensitivity", o)
    IN IF a.exc /= "none" THEN a ELSE store_sensitivity(a, a.ret)

\* `if self._prev_pulsecount is not None and self._prev_ts is not None`
has_previous(m) == m._prev_pulsecount /= None /\ m._prev_ts /= None

\* Mutant: the elapsed time is not tested
sample_admitted_any_dt(dt, dp) == dp >= 0

\* `if dt > 0 and dp >= 0`
sample_admitted(dt, dp) == dt > 0 /\ dp >= 0

\* Mutant: nothing is evicted
evict_nothing(samples, cutoff) == samples

\* `while self._samples and self._samples[0][0] < cutoff: popleft()`
RECURSIVE evict(_, _)
evict(samples, cutoff) ==
    IF samples /= <<>> /\ Head(samples)[1] < cutoff
    THEN evict(Tail(samples), cutoff) ELSE samples

RECURSIVE SumField(_, _)
SumField(samples, k) ==
    IF samples = <<>> THEN 0 ELSE Head(samples)[k] + SumField(Tail(samples), k)

\* `if self._sensitivity and self._sensitivity > 0`
sensitivity_usable(sens) == sens /= None /\ Val(sens).n /= 0 /\ Val(sens).n > 0

\* Mutant: usvh derived from the rounded data["cpm"]
usvh_value_from_rounded_cpm(total_pulses, total_time, sens) ==
    RoundHalfEven(RoundHalfEven(total_pulses * 60 * 10, total_time) * sens.d * 100, sens.n)

\* data["usvh"] = round(cpm / self._sensitivity, 3), in 1/1000
usvh_value(total_pulses, total_time, sens) ==
    RoundHalfEven(total_pulses * 60 * sens.d * 1000, total_time * sens.n)

\* Mutant: cpm is the rate per second, the factor 60 is left out
rate_fields_per_second(total_pulses, total_time, sens) ==
    IF total_time > 0
    THEN ("cps" :> RoundHalfEven(total_pulses * 1000, total_time))
         @@ ("cpm" :> RoundHalfEven(total_pulses * 10, total_time))
         @@ (IF sensitivity_usable(sens)
             THEN "usvh" :> usvh_value(total_pulses, total_time, Val(sens))
             ELSE <<>>)
    ELSE <<>>

\* The keys added to data once the window is summed
rate_fields(total_pulses, total_time, sens) ==
    IF total_time > 0
    THEN ("cps" :> RoundHalfEven(total_pulses * 1000, total_time))
         @@ ("cpm" :> RoundHalfEven(total_pulses * 60 * 10, total_time))
         @@ (IF sensitivity_usable(sens)
             THEN "usvh" :> usvh_value(total_pulses, total_time, Val(sens))
             ELSE <<>>)
    ELSE <<>>

\* Mutant: rates that were not computed are reported as zero
window_fields_zero_filled(admit, total_pulses, total_time, sens) ==
    IF admit THEN rate_fields(total_pulses, total_time, sens)
    ELSE ("cps" :> 0) @@ ("cpm" :> 0)

\* The keys the `if dt > 0 and dp >= 0` block adds to data: none unless entered
window_fields(admit, total_pulses, total_time, sens) ==
    IF admit THEN rate_fields(total_pulses, total_time, sens) ELSE <<>>

\* Mutant: _prev_ts is set by the first read only, every dt is measured from it
publish_from_first_read(m, pulsecount, now) ==
    LET prev == has_previous(m)
        dt == now - Val(m._prev_ts)
        dp == pulsecount - Val(m._prev_pulsecount)
        admit == prev /\ sample_admitted(dt, dp)
        kept == evict(Append(m._samples, <<now, dp, dt>>), now - AVERAGING_WINDOW_S)
        total_pulses == SumField(kept, 2)
        total_time == SumField(kept, 3)
        d == ("pulse_count" :> pulsecount)
             @@ window_fields(admit, total_pulses, total_time, m._sensitivity)
    IN Returned([m EXCEPT !._samples = IF admit THEN kept ELSE @,
                          !._prev_pulsecount = Some(pulsecount),
                          !._prev_ts = IF m._prev_ts = None THEN Some(now) ELSE @,
                          !.locals = [pulsecount |-> Some(pulsecount),
                                      now |-> Some(now),
                                      dt |-> IF prev THEN Some(dt) ELSE None,
                                      dp |-> IF prev THEN Some(dp) ELSE None,
                                      cpm |-> IF admit /\ total_time > 0
                                              THEN Some(Ratio(total_pulses * 60, total_time))
                                              ELSE None,
                                      evicted |-> IF admit
                                                  THEN Len(m._samples) + 1 - Len(kept)
                                                  ELSE 0]],
                Some(d))

\* _async_update_data from `now = self.hass.loop.time()` to `return data`
publish(m, pulsecount, now) ==
    LET prev == has_previous(m)
        dt == now - Val(m._prev_ts)
        dp == pulsecount - Val(m._prev_pulsecount)
        admit == prev /\ sample_admitted(dt, dp)
        kept == evict(Append(m._samples, <<now, dp, dt>>), now - AVERAGING_WINDOW_S)
        total_pulses == SumField(kept, 2)
        total_time == SumField(kept, 3)
        d == ("pulse_count" :> pulsecount)
             @@ window_fields(admit, total_pulses, total_time, m._sensitivity)
    IN Returned([m EXCEPT !._samples = IF admit THEN kept ELSE @,
                          !._prev_pulsecount = Some(pulsecount),
                          !._prev_ts = Some(now),
                          !.locals = [pulsecount |-> Some(pulsecount),
                                      now |-> Some(now),
                                      dt |-> IF prev THEN Some(dt) ELSE None,
                                      dp |-> IF prev THEN Some(dp) ELSE None,
                                      cpm |-> IF admit /\ total_time > 0
                                              THEN Some(Ratio(total_pulses * 60, total_time))
                                              ELSE None,
                                      evicted |-> IF admit
                                                  THEN Len(m._samples) + 1 - Len(kept)
                                                  ELSE 0]],
                Some(d))

\* Mutant: the time of the read is stored before the payload is validated
read_pulse_count_stamping(m, o, now) ==
    LET a == get(m, "tubePulseCount", o)
    IN IF a.exc /= "none" THEN a
       ELSE IF ~TruthyStr(a.ret)
       THEN Raised(a, "UpdateFailed", <<"No response for tubePulseCount">>)
       ELSE IF ~int_ok(Val(a.ret))
       THEN Raised([a EXCEPT !._prev_ts = Some(now)], "UpdateFailed",
                   <<"Invalid tubePulseCount", "ValueError">>)
       ELSE publish(a, int(Val(a.ret)), now)

\* _async_update_data, what is done with the value pc_s returned
store_pulse_count(a, pc_s, now) ==
    IF ~TruthyStr(pc_s)
    THEN Raised(a, "UpdateFailed", <<"No response for tubePulseCount">>)
    ELSE IF ~int_ok(Val(pc_s))
    THEN Raised(a, "UpdateFailed", <<"Invalid tubePulseCount", "ValueError">>)
    ELSE publish(a, int(Val(pc_s)), now)

\* _async_update_data from the tubePulseCount read to `return data`
read_pulse_count(m, o, now) ==
    LET a == get(m, "tubePulseCount", o)
    IN IF a.exc /= "none" THEN a ELSE store_pulse_count(a, a.ret, now)

\* Mutant: only the first except clause, `except (RadProIOError, UpdateFailed)`
reraise_known_only(m) ==
    IF m.exc \in {"RadProIOError", "UpdateFailed"}
    THEN Raised(m, "UpdateFailed", <<m.exc>> \o m.cause)
    ELSE m

\* _async_update_data, the two except clauses: whatever was raised inside
\* the try block is raised again as UpdateFailed from it
reraise(m) ==
    IF m.exc = "none" THEN m
    ELSE Raised(m, "UpdateFailed", <<m.exc>> \o m.cause)

\* Mutant: the refresh tests read the counter before it is incremented
update_data_stale_counter(m, n, sInterval, dInterval, oS, oId, oBv, oPc, now) ==
    LET m1 == IF (n - 1) % sInterval = 0 THEN _read_sensitivity(m, oS) ELSE m
        m2 == IF m1.exc /= "none" THEN m1
              ELSE IF (n - 1) % dInterval = 0 THEN _read_device_info(m1, oId, oBv) ELSE m1
        m3 == IF m2.exc /= "none" THEN m2 ELSE read_pulse_count(m2, oPc, now)
    IN reraise(m3)

\* _async_update_data; n is the incremented _update_counter
update_data(m, n, sInterval, dInterval, oS, oId, oBv, oPc, now) ==
    LET m1 == IF n % sInterval = 0 THEN _read_sensitivity(m, oS) ELSE m
        m2 == IF m1.exc /= "none" THEN m1
              ELSE IF n % dInterval = 0 THEN _read_device_info(m1, oId, oBv) ELSE m1
        m3 == IF m2.exc /= "none" THEN m2 ELSE read_pulse_count(m2, oPc, now)
    IN reraise(m3)

-----------------------------------------------------------------------------
(* The device and the environment *)

\* Lines the device may answer to each key (raw bytes as readline() returns
\* them; <<>> is a read that timed out)
SensitivityLines ==
    { <<"O", "K", " ", "1", ".", "5", "\n">>,
      <<"O", "K", " ", "0", "\n">>,
      <<"O", "K", " ", "-", "2", "\n">>,
      <<"O", "K", " ", "x", "\n">>,
      <<>> }

DeviceIdLines ==
    { <<"O", "K", " ", " ", "A", " ", ";", "B", ";", "C", ";", "D", "\n">>,
      <<"O", "K", " ", "A", ";", "B", "\n">>,
      <<"O", "K", " ", "L", "\n">>,
      <<>> }

BatteryLines ==
    { <<"O", "K", " ", "1", ".", "2", "\n">>,
      <<"O", "K", " ", "x", "\n">>,
      <<>> }

LineTimeout == <<>>
LinePc5 == <<"O", "K", " ", "5", "\n">>
LinePc7 == <<"O", "K", " ", "7", "\n">>
LinePcDecimal == <<"O", "K", " ", "4", ".", "5", "\n">>
LinePcEmpty == <<"O", "K", "\n">>

PulseCountLines == {LinePc5, LinePc7, LinePcDecimal, LinePcEmpty, LineTimeout}

\* The outcomes of one exchange; the port is opened only when none is held
Outcomes(lines, needOpen) ==
    {Outcome(TRUE, "ok", l) : l \in lines}
    \cup {Outcome(TRUE, "write", <<>>), Outcome(TRUE, "read", <<>>)}
    \cup (IF needOpen THEN {Outcome(FALSE, "ok", <<>>)} ELSE {})

\* The outcome of an exchange that does not take place
Skip == Outcome(TRUE, "ok", <<>>)

OutcomesIf(cond, lines, m) ==
    IF cond /\ m.exc = "none" THEN Outcomes(lines, m.serial = None) ELSE {Skip}

\* Seconds that may pass on the event loop's monotonic clock between two
\* readings of it: none, one second, or more than the averaging window
Elapsed == {0, 1, MaxElapsed}

\* What a cycle may read from the clock, when it gets as far as reading it
ReadingsOfClock(reached, elapsed) ==
    IF reached THEN {clock + e : e \in elapsed} ELSE {clock}

\* <<interval_s, sensitivity_interval_s, deviceinfo_interval_s>>
Configs == { <<2, 4, 6>> }

Max(a, b) == IF a >= b THEN a ELSE b

\* Mutant: the quotient is not floored at 1
refresh_cycles_unfloored(period_s, interval_s) == period_s \div Max(1, interval_s)

\* RadProCoordinator.__init__: a refresh period in update cycles
refresh_cycles(period_s, interval_s) == Max(1, period_s \div Max(1, interval_s))

-----------------------------------------------------------------------------
(* State and actions *)

Machine ==
    [serial |-> serial, nOpened |-> nOpened, isOpen |-> isOpen, failed |-> failed,
     ops |-> <<>>, rx |-> None, ret |-> None, exc |-> "none", cause |-> <<>>,
     device_info |-> device_info, _sensitivity |-> _sensitivity,
     _prev_pulsecount |-> _prev_pulsecount, _prev_ts |-> _prev_ts,
     _samples |-> _samples, locals |-> NoLocals]

Install(name, m) ==
    /\ call' = name
    /\ serial' = m.serial
    /\ nOpened' = m.nOpened
    /\ isOpen' = m.isOpen
    /\ failed' = m.failed
    /\ ops' = m.ops
    /\ rx' = m.rx
    /\ ret' = m.ret
    /\ exc' = m.exc
    /\ cause' = m.cause
    /\ device_info' = m.device_info
    /\ _sensitivity' = m._sensitivity
    /\ _prev_pulsecount' = m._prev_pulsecount
    /\ _prev_ts' = m._prev_ts
    /\ _samples' = m._samples
    /\ locals' = m.locals

\* No coroutine of the integration has been started.  entry: where
\* async_setup_entry and its _setup_coordinator stand; registered: the
\* coordinator is in hass.data[DOMAIN] under the entry id; timer: the refresh
\* timer of the DataUpdateCoordinator is armed; running: the coroutines in
\* flight, each awaiting the executor job for the head of its todo
NoTasks == [entry |-> "new", registered |-> FALSE, timer |-> FALSE, running |-> {}]

\* No cycle and no executor job in flight.  running: a cycle is in flight;
\* todo: the keys it has still to request, the one in flight first; q: where
\* the query in flight stands; h: the handle its readline() is blocked on;
\* c: where the close() in flight stands; closed: how a close() ended; hit:
\* close() closed the handle or dropped the reference while the exchange of
\* the query in flight was under way
NoJob == [running |-> FALSE, todo |-> <<>>, q |-> "idle", h |-> 0,
          c |-> "idle", closed |-> "no", hit |-> FALSE]

\* A call that may have to open the port needs a handle within the bound
CanOpen == serial = None => nOpened < MaxHandles

InitCoordinator(cfg) ==
    /\ phase = "new"
    /\ device_info = NewDeviceInfo
    /\ _prev_pulsecount = None
    /\ _prev_ts = None
    /\ _sensitivity = None
    /\ _samples = <<>>
    /\ _sensitivity_interval = refresh_cycles(cfg[2], cfg[1])
    /\ _deviceinfo_interval = refresh_cycles(cfg[3], cfg[1])
    /\ _update_counter = 0
    /\ data = None
    /\ locals = NoLocals
    /\ clock = 0

InitRadProIO ==
    /\ serial = None
    /\ nOpened = 0
    /\ isOpen = {}
    /\ failed = {}
    /\ ops = <<>>
    /\ rx = None
    /\ call = "__init__"
    /\ ret = None
    /\ exc = "none"
    /\ cause = <<>>

Init ==
    /\ InitRadProIO
    /\ deviceLine = <<>>
    /\ device = <<>>
    /\ config \in Configs
    /\ job = NoJob
    /\ inbuf = <<>>
    /\ tasks = NoTasks
    /\ InitCoordinator(config)

\* Mutant: a failure of the identity read is swallowed and setup goes on
setup_continuing(m, openOk, oId, oBv, oS) ==
    LET a == open(m, openOk)
        b == IF a.exc /= "none" THEN a ELSE _read_device_info(a, oId, oBv)
    IN IF a.exc /= "none" THEN a ELSE _read_sensitivity(Returned(b, None), oS)

\* RadProCoordinator.async_setup
setup(m, openOk, oId, oBv, oS) ==
    LET a == open(m, openOk)
        b == IF a.exc /= "none" THEN a ELSE _read_device_info(a, oId, oBv)
    IN IF b.exc /= "none" THEN b ELSE _read_sensitivity(b, oS)

\* One call of async_setup; the parameters are the lines the device may
\* answer to each key
start(idLines, bvLines, sLines) ==
    /\ phase = "new"
    /\ \E openOk \in BOOLEAN :
       \E a \in {open(Machine, openOk)} :
       \E oId \in OutcomesIf(TRUE, idLines, a) :
       \E b \in {IF a.exc = "none" THEN read_device_id(a, oId) ELSE a} :
       \E oBv \in OutcomesIf(TRUE, bvLines, b) :
       \E c \in {IF b.exc = "none" THEN read_battery_voltage(b, oBv) ELSE b} :
       \E oS \in OutcomesIf(TRUE, sLines, c) :
       \E m \in {setup(Machine, openOk, oId, oBv, oS)} :
          /\ Install("async_setup", m)
          /\ phase' = IF m.exc = "none" THEN "ready" ELSE "setup_failed"
    /\ UNCHANGED <<deviceLine, device, inbuf, tasks, config, job, _sensitivity_interval,
                   _deviceinfo_interval, _update_counter, data, clock>>

async_setup == start(DeviceIdLines, BatteryLines, SensitivityLines)

\* One refresh of the DataUpdateCoordinator: _async_update_data runs; if it
\* reads the clock, it reads `now`, some time after the last reading; its
\* result is published as coordinator.data unless it raised UpdateFailed.
\* The parameters are what the environment may do: the lines the device may
\* answer to each key, and the seconds that may have passed; cycles bounds
\* the number of refreshes.
poll_cycle(sLines, idLines, bvLines, pcLines, elapsed, cycles) ==
    /\ phase = "ready"
    /\ _update_counter < cycles
    /\ CanOpen
    /\ LET n == _update_counter + 1
           doS == n % _sensitivity_interval = 0
           doD == n % _deviceinfo_interval = 0
           m0 == Machine
       IN \E oS \in OutcomesIf(doS, sLines, m0) :
          \E m1 \in {IF doS THEN _read_sensitivity(m0, oS) ELSE m0} :
          \E oId \in OutcomesIf(doD, idLines, m1) :
          \E m2 \in {IF doD /\ m1.exc = "none" THEN read_device_id(m1, oId) ELSE m1} :
          \E oBv \in OutcomesIf(doD, bvLines, m2) :
          \E m3 \in {IF doD /\ m2.exc = "none" THEN read_battery_voltage(m2, oBv) ELSE m2} :
          \E oPc \in OutcomesIf(TRUE, pcLines, m3) :
          \E now \in ReadingsOfClock(m3.exc = "none" /\ oPc.open /\ oPc.io = "ok"
                                      /\ parse_response(oPc.line) /= None, elapsed) :
          \E m \in {update_data(m0, n, _sensitivity_interval, _deviceinfo_interval,
                                oS, oId, oBv, oPc, now)} :
             /\ Install("_async_update_data", m)
             /\ _update_counter' = n
             /\ clock' = IF m.locals.now /= None THEN now ELSE clock
             /\ data' = IF m.exc = "none" THEN m.ret ELSE data
    /\ UNCHANGED <<deviceLine, device, inbuf, tasks, config, job, phase, _sensitivity_interval,
                   _deviceinfo_interval>>

\* One refresh, of at most MaxCycles
refresh(sLines, idLines, bvLines, pcLines, elapsed) ==
    poll_cycle(sLines, idLines, bvLines, pcLines, elapsed, MaxCycles)

_async_update_data ==
    refresh(SensitivityLines, DeviceIdLines, BatteryLines, PulseCountLines, Elapsed)

\* RadProCoordinator.async_close
async_close ==
    /\ phase \in {"ready", "closed"}
    /\ Install("async_close", close(Machine))
    /\ phase' = "closed"
    /\ UNCHANGED <<deviceLine, device, inbuf, tasks, config, job, _sensitivity_interval,
                   _deviceinfo_interval, _update_counter, data, clock>>

Next == async_setup \/ _async_update_data \/ async_close

Spec == Init /\ [][Next]_vars

-----------------------------------------------------------------------------
(* RadProIO on its own: one instance, driven through its public methods,   *)
(* connected to a device that answers every request with deviceLine.       *)

Alphabet == {"O", "K", " ", "4", "0x80"}

\* b"OK 42\n" and b"ERR bad key\n"
LineOK42 == <<"O", "K", " ", "4", "2", "\n">>
LineERR == <<"E", "R", "R", " ", "b", "a", "d", " ", "k", "e", "y", "\n">>

IOLines == UNION {[1..n -> Alphabet] : n \in 0..MaxLen} \cup {LineOK42, LineERR}

IOKeys == {"deviceId", "tubePulseCount"}

InitIO ==
    /\ InitRadProIO
    /\ deviceLine \in IOLines
    /\ device = <<>>
    /\ config \in Configs
    /\ job = NoJob
    /\ inbuf = <<>>
    /\ tasks = NoTasks
    /\ InitCoordinator(config)

\* open() on an instance that holds no connection, as every caller does
RadProIO_open ==
    /\ serial = None
    /\ nOpened < MaxHandles
    /\ \E openOk \in BOOLEAN : Install("open", open(Machine, openOk))
    /\ UNCHANGED <<deviceLine, device, inbuf, tasks, config, job, phase, _sensitivity_interval,
                   _deviceinfo_interval, _update_counter, data, clock>>

RadProIO_close ==
    /\ Install("close", close(Machine))
    /\ UNCHANGED <<deviceLine, device, inbuf, tasks, config, job, phase, _sensitivity_interval,
                   _deviceinfo_interval, _update_counter, data, clock>>

RadProIO_get ==
    /\ CanOpen
    /\ \E key \in IOKeys, o \in Outcomes({deviceLine}, serial = None) :
          Install("get", get(Machine, key, o))
    /\ UNCHANGED <<deviceLine, device, inbuf, tasks, config, job, phase, _sensitivity_interval,
                   _deviceinfo_interval, _update_counter, data, clock>>

RadProIO_set ==
    /\ CanOpen
    /\ \E o \in Outcomes({deviceLine}, serial = None) :
          Install("set", set(Machine, "tubeSensitivity", "150", o))
    /\ UNCHANGED <<deviceLine, device, inbuf, tasks, config, job, phase, _sensitivity_interval,
                   _deviceinfo_interval, _update_counter, data, clock>>

NextIO == RadProIO_open \/ RadProIO_close \/ RadProIO_get \/ RadProIO_set

SpecIO == InitIO /\ [][NextIO]_vars

\* Every caller of query: the instance is driven either through its public
\* methods, against a device that answers deviceLine, or by its coordinator
\* (deviceLine empty), whose device answers what the poll cycle's
\* environment lets it answer.
NextCalls ==
    \/ deviceLine /= <<>> /\ NextIO
    \/ deviceLine = <<>> /\ Next

SpecCalls == InitIO /\ [][NextCalls]_vars


-----------------------------------------------------------------------------
(* The auxiliary reads on their own: _read_device_info and                 *)
(* _read_sensitivity called in any order on one coordinator, against a     *)
(* device whose answers may change between calls.  Every exchange here     *)
(* completes (with a line, or with a read that timed out); exchanges that  *)
(* raise are covered by the poll cycle's specification.                    *)

LineId3 == <<"O", "K", " ", "X", ";", " ", "Y", ";", "Z", "\n">>
LineBattery3 == <<"O", "K", " ", "3", "\n">>

AuxDeviceIdLines == DeviceIdLines \cup {LineId3, LinePcEmpty}
AuxBatteryLines == BatteryLines \cup {LineBattery3}

\* The lines the device may answer to each auxiliary key
AuxLines == [deviceId |-> AuxDeviceIdLines, deviceBatteryVoltage |-> AuxBatteryLines,
             tubeSensitivity |-> SensitivityLines]

Devices == { d \in [DOMAIN AuxLines -> UNION {AuxLines[k] : k \in DOMAIN AuxLines}] :
                \A k \in DOMAIN AuxLines : d[k] \in AuxLines[k] }

InitAux ==
    /\ InitRadProIO
    /\ deviceLine = <<>>
    /\ device \in Devices
    /\ config \in Configs
    /\ job = NoJob
    /\ inbuf = <<>>
    /\ tasks = NoTasks
    /\ InitCoordinator(config)

\* The device's state changes: it answers differently from now on
DeviceChanges ==
    /\ \E k \in DOMAIN device :
       \E l \in AuxLines[k] \ {device[k]} : device' = [device EXCEPT ![k] = l]
    /\ UNCHANGED <<ioVars, callVars, coVars, deviceLine, inbuf, tasks, config, job>>

\* An exchange that completes: the device's line, or a read that timed out
Answer(key) == Outcome(TRUE, "ok", device[key])

RadProCoordinator_read_device_info ==
    /\ CanOpen
    /\ Install("_read_device_info",
               _read_device_info(Machine, Answer("deviceId"), Answer("deviceBatteryVoltage")))
    /\ UNCHANGED <<deviceLine, device, inbuf, tasks, config, job, phase, _sensitivity_interval,
                   _deviceinfo_interval, _update_counter, data, clock>>

RadProCoordinator_read_sensitivity ==
    /\ CanOpen
    /\ Install("_read_sensitivity", _read_sensitivity(Machine, Answer("tubeSensitivity")))
    /\ UNCHANGED <<deviceLine, device, inbuf, tasks, config, job, phase, _sensitivity_interval,
                   _deviceinfo_interval, _update_counter, data, clock>>

NextAux ==
    DeviceChanges \/ RadProCoordinator_read_device_info \/ RadProCoordinator_read_sensitivity

SpecAux == InitAux /\ [][NextAux]_vars

-----------------------------------------------------------------------------
(* The refresh schedule: the coordinator constructed with any intervals    *)
(* from a range that includes zero and negative values, set up and polled  *)
(* against a device that answers each key with one fixed line; any         *)
(* exchange may still raise.                                               *)

MaxPeriod == 4

ScheduleConfigs == (-1..2) \X (-1..MaxPeriod) \X (-1..MaxPeriod)

HealthyDevice ==
    [deviceId |-> LineId3, deviceBatteryVoltage |-> LineBattery3,
     tubeSensitivity |-> <<"O", "K", " ", "1", ".", "5", "\n">>, tubePulseCount |-> LinePc5]

InitSchedule ==
    /\ InitRadProIO
    /\ deviceLine = <<>>
    /\ device = HealthyDevice
    /\ config \in ScheduleConfigs
    /\ job = NoJob
    /\ inbuf = <<>>
    /\ tasks = NoTasks
    /\ InitCoordinator(config)

ScheduledSetup ==
    start({device.deviceId}, {device.deviceBatteryVoltage}, {device.tubeSensitivity})

ScheduledRefresh ==
    refresh({device.tubeSensitivity}, {device.deviceId}, {device.deviceBatteryVoltage},
            {device.tubePulseCount}, {1})

NextSchedule == ScheduledSetup \/ ScheduledRefresh

SpecSchedule == InitSchedule /\ [][NextSchedule]_vars

-----------------------------------------------------------------------------
(* Shutdown while a cycle is in flight.  async_add_executor_job runs        *)
(* io.get and io.close on threads of the executor, so the close() that      *)
(* async_close submits runs concurrently with the query of a cycle that is  *)
(* still awaiting its result.  A step is one access to self.serial or to    *)
(* the port.  No new cycle is started once async_close has been called.     *)

\* <<2, 4, 4>>: the second cycle makes all four requests, the others one
ThreadConfigs == { <<2, 4, 4>> }

InitThreads ==
    /\ InitRadProIO
    /\ deviceLine = <<>>
    /\ device = HealthyDevice
    /\ config \in ThreadConfigs
    /\ job = NoJob
    /\ inbuf = <<>>
    /\ tasks = NoTasks
    /\ InitCoordinator(config)

\* The machine in the middle of the cycle in flight
Running ==
    [Machine EXCEPT !.ops = ops, !.rx = rx, !.ret = ret, !.exc = exc, !.cause = cause,
                    !.locals = locals]

\* The keys requested in the cycle whose incremented counter is n
due_keys(n) ==
    (IF n % _sensitivity_interval = 0 THEN <<"tubeSensitivity">> ELSE <<>>)
    \o (IF n % _deviceinfo_interval = 0 THEN <<"deviceId", "deviceBatteryVoltage">> ELSE <<>>)
    \o <<"tubePulseCount">>

\* The exchange of the query in flight is under way: past the connection
\* check, readline() not yet returned
ExchangeUnderWay == job.q \in {"write", "readline", "reading"}

\* The cycle goes on, with the machine as m
Continue(m, j) ==
    /\ Install("_async_update_data", m)
    /\ job' = j
    /\ UNCHANGED <<deviceLine, device, inbuf, tasks, config, phase, _sensitivity_interval,
                   _deviceinfo_interval, _update_counter, data, clock>>

\* The cycle ends: what was raised is raised again as UpdateFailed, and what
\* was returned is published
Finish(m, now) ==
    /\ Install("_async_update_data", reraise(m))
    /\ job' = [job EXCEPT !.running = FALSE, !.todo = <<>>, !.q = "idle", !.h = 0,
                           !.hit = FALSE]
    /\ data' = IF m.exc = "none" THEN m.ret ELSE data
    /\ clock' = now
    /\ UNCHANGED <<deviceLine, device, inbuf, tasks, config, phase, _sensitivity_interval,
                   _deviceinfo_interval, _update_counter>>

\* The except clause of query, reached with or without a handle
except_clause(m, e) ==
    IF m.serial = None THEN Raised(m, "RadProIOError", <<e>>)
    ELSE on_serial_error(m, Val(m.serial), e)

\* _async_update_data is called: the counter is incremented
CycleBegins ==
    /\ phase = "ready"
    /\ ~job.running
    /\ _update_counter < MaxCycles
    /\ Install("_async_update_data", Machine)
    /\ _update_counter' = _update_counter + 1
    /\ job' = [job EXCEPT !.running = TRUE, !.todo = due_keys(_update_counter + 1),
                           !.q = "check", !.hit = FALSE]
    /\ UNCHANGED <<deviceLine, device, inbuf, tasks, config, phase, _sensitivity_interval,
                   _deviceinfo_interval, data, clock>>

\* query: `if self.serial is None: self.open()`
QueryChecks ==
    /\ job.q = "check"
    /\ CanOpen
    /\ \E openOk \in BOOLEAN :
       \E m \in {IF serial = None THEN open(Running, openOk) ELSE Running} :
          IF m.exc = "none"
          THEN Continue(m, [job EXCEPT !.q = "write", !.hit = FALSE])
          ELSE Finish(m, clock)

\* query: `assert self.serial is not None` and `self.serial.write(...)`
QueryWrites ==
    /\ job.q = "write"
    /\ \/ /\ serial = None
          /\ Finish(except_clause(Running, "AssertionError"), clock)
       \/ /\ serial /= None /\ Val(serial) \notin isOpen
          /\ Finish(except_clause(Running, "PortNotOpenError"), clock)
       \/ /\ serial /= None /\ Val(serial) \in isOpen
          /\ \E io \in {"ok", "write"} :
             \E w \in {[Running EXCEPT
                           !.ops = Append(@, Op("write", Val(serial),
                                                <<"GET", " ", job.todo[1], "\n">>))]} :
                IF io = "ok"
                THEN Continue(w, [job EXCEPT !.q = "readline"])
                ELSE Finish(except_clause(w, "write failed"), clock)

\* query: `self.serial.readline()` is called, and blocks
QueryCallsReadline ==
    /\ job.q = "readline"
    /\ \/ /\ serial = None
          /\ Finish(except_clause(Running, "AttributeError"), clock)
       \/ /\ serial /= None /\ Val(serial) \notin isOpen
          /\ Finish(except_clause(Running, "PortNotOpenError"), clock)
       \/ /\ serial /= None /\ Val(serial) \in isOpen
          /\ Continue([Running EXCEPT !.ops = Append(@, Op("readline", Val(serial), <<>>))],
                      [job EXCEPT !.q = "reading", !.h = Val(serial)])

\* What the value v returned for key makes of the cycle
store(m, key, v, now) ==
    IF key = "tubeSensitivity" THEN store_sensitivity(m, v)
    ELSE IF key = "deviceId" THEN store_device_id(m, v)
    ELSE IF key = "deviceBatteryVoltage" THEN store_battery_voltage(m, v)
    ELSE store_pulse_count(m, v, now)

\* What a readline() that was called on an open port may do: return the
\* device's line or raise; and if the port was closed under it, also return
\* nothing when its timeout expires
readline_outcomes(h, key) ==
    {[io |-> "ok", line |-> device[key]], [io |-> "read", line |-> <<>>]}
    \cup (IF h \in isOpen THEN {} ELSE {[io |-> "ok", line |-> <<>>]})

\* query: readline() returns or raises; the value returned by query is used
\* by the cycle, which goes on to its next request or ends
QueryReturns ==
    /\ job.q = "reading"
    /\ \E o \in readline_outcomes(job.h, job.todo[1]) :
          IF o.io = "read"
          THEN Finish(except_clause([Running EXCEPT !.failed = @ \cup {job.h}],
                                    "readline failed"), clock)
          ELSE \E now \in {clock + 1} :
               \E m \in {store(Returned([Running EXCEPT !.rx = Some(o.line)],
                                        parse_response(o.line)),
                                job.todo[1], parse_response(o.line), now)} :
                  IF m.exc = "none" /\ Len(job.todo) > 1
                  THEN Continue(m, [job EXCEPT !.todo = Tail(@), !.q = "check", !.h = 0,
                                               !.hit = FALSE])
                  ELSE Finish(m, IF m.exc = "none" THEN now ELSE clock)

\* async_close is called and submits io.close to the executor
CloseRequested ==
    /\ phase = "ready"
    /\ job.c = "idle" /\ job.closed = "no"
    /\ phase' = "closed"
    /\ job' = [job EXCEPT !.c = "test"]
    /\ UNCHANGED <<ioVars, callVars, deviceLine, device, inbuf, tasks, config, device_info,
                   _prev_pulsecount, _prev_ts, _sensitivity, _samples,
                   _sensitivity_interval, _deviceinfo_interval, _update_counter, data,
                   locals, clock>>

\* close: `if self.serial and self.serial.is_open`
CloseTests ==
    /\ job.c = "test"
    /\ job' = [job EXCEPT !.c = IF serial /= None /\ Val(serial) \in isOpen
                                 THEN "close" ELSE "assign"]
    /\ UNCHANGED <<ioVars, callVars, coVars, deviceLine, device, inbuf, tasks, config>>

\* close: `self.serial.close()`; self.serial is read again
CloseCloses ==
    /\ job.c = "close"
    /\ IF serial = None
       THEN /\ job' = [job EXCEPT !.c = "idle", !.closed = "raised"]
            /\ UNCHANGED <<ioVars, callVars>>
       ELSE /\ isOpen' = isOpen \ {Val(serial)}
            /\ ops' = Append(ops, Op("close", Val(serial), <<>>))
            /\ job' = [job EXCEPT !.c = "assign", !.hit = @ \/ ExchangeUnderWay]
            /\ UNCHANGED <<serial, nOpened, failed, rx, call, ret, exc, cause>>
    /\ UNCHANGED <<coVars, deviceLine, device, inbuf, tasks, config>>

\* close: `self.serial = None`
CloseAssigns ==
    /\ job.c = "assign"
    /\ serial' = None
    /\ job' = [job EXCEPT !.c = "idle", !.closed = "done",
                           !.hit = @ \/ (ExchangeUnderWay /\ serial /= None)]
    /\ UNCHANGED <<nOpened, isOpen, failed, callVars, coVars, deviceLine, device, inbuf,
                   tasks, config>>

NextThreads ==
    \/ ScheduledSetup
    \/ CycleBegins
    \/ QueryChecks
    \/ QueryWrites
    \/ QueryCallsReadline
    \/ QueryReturns
    \/ CloseRequested
    \/ CloseTests
    \/ CloseCloses
    \/ CloseAssigns

SpecThreads == InitThreads /\ [][NextThreads]_vars

-----------------------------------------------------------------------------
(* Late answers.  The port is opened with timeout=0.5: a readline() that    *)
(* has received nothing by then returns b'' and query returns None.  The    *)
(* device's answer to that request can still arrive afterwards; it then     *)
(* waits in the port's input buffer, which query never resets, and the      *)
(* next readline() returns the oldest line waiting.  Every exchange here    *)
(* completes and the port, opened once by async_setup, is never lost.       *)

MaxLate == 2

LateConfigs == { <<2, 2, 4>>, <<2, 4, 2>>, <<2, 6, 6>> }

InitLate ==
    /\ InitRadProIO
    /\ deviceLine = <<>>
    /\ device = HealthyDevice
    /\ config \in LateConfigs
    /\ job = NoJob
    /\ inbuf = <<>>
    /\ tasks = NoTasks
    /\ InitCoordinator(config)

\* serial.readline() of one exchange on a port whose input buffer holds buf:
\* the device's answer arrives either before the read timeout or after it.
\* line: the bytes readline() returns; buf: what is left waiting in the port
readline(buf, answer, late) ==
    LET received == IF late THEN buf ELSE Append(buf, answer)
    IN [line |-> IF received = <<>> THEN <<>> ELSE Head(received),
        buf |-> (IF received = <<>> THEN <<>> ELSE Tail(received))
                \o (IF late THEN <<answer>> ELSE <<>>)]

\* The exchange for a key that is due; none for a key that is not
exchanged(due, buf, answer, late) ==
    IF due THEN readline(buf, answer, late) ELSE [line |-> <<>>, buf |-> buf]

\* Whether the answer of an exchange may be late
Lateness(due, buf) == IF due /\ Len(buf) < MaxLate THEN BOOLEAN ELSE {FALSE}

\* async_setup: the port is opened, its input buffer empty, and the three
\* reads follow
LateSetup ==
    /\ phase = "new"
    /\ \E lId \in Lateness(TRUE, <<>>) :
       \E xId \in {exchanged(TRUE, <<>>, device.deviceId, lId)} :
       \E lBv \in Lateness(TRUE, xId.buf) :
       \E xBv \in {exchanged(TRUE, xId.buf, device.deviceBatteryVoltage, lBv)} :
       \E lS \in Lateness(TRUE, xBv.buf) :
       \E xS \in {exchanged(TRUE, xBv.buf, device.tubeSensitivity, lS)} :
       \E m \in {setup(Machine, TRUE, Outcome(TRUE, "ok", xId.line),
                       Outcome(TRUE, "ok", xBv.line), Outcome(TRUE, "ok", xS.line))} :
          /\ Install("async_setup", m)
          /\ phase' = IF m.exc = "none" THEN "ready" ELSE "setup_failed"
          /\ inbuf' = xS.buf
    /\ UNCHANGED <<deviceLine, device, tasks, config, job, _sensitivity_interval,
                   _deviceinfo_interval, _update_counter, data, clock>>

\* One refresh: _async_update_data with the exchanges that are due
LateRefresh ==
    /\ phase = "ready"
    /\ _update_counter < MaxCycles
    /\ LET n == _update_counter + 1
           doS == n % _sensitivity_interval = 0
           doD == n % _deviceinfo_interval = 0
       IN \E lS \in Lateness(doS, inbuf) :
          \E xS \in {exchanged(doS, inbuf, device.tubeSensitivity, lS)} :
          \E lId \in Lateness(doD, xS.buf) :
          \E xId \in {exchanged(doD, xS.buf, device.deviceId, lId)} :
          \E lBv \in Lateness(doD, xId.buf) :
          \E xBv \in {exchanged(doD, xId.buf, device.deviceBatteryVoltage, lBv)} :
          \E lPc \in Lateness(TRUE, xBv.buf) :
          \E xPc \in {exchanged(TRUE, xBv.buf, device.tubePulseCount, lPc)} :
          \E now \in ReadingsOfClock(parse_response(xPc.line) /= None, {1}) :
          \E m \in {update_data(Machine, n, _sensitivity_interval, _deviceinfo_interval,
                                Outcome(TRUE, "ok", xS.line), Outcome(TRUE, "ok", xId.line),
                                Outcome(TRUE, "ok", xBv.line), Outcome(TRUE, "ok", xPc.line),
                                now)} :
             /\ Install("_async_update_data", m)
             /\ _update_counter' = n
             /\ clock' = IF m.locals.now /= None THEN now ELSE clock
             /\ data' = IF m.exc = "none" THEN m.ret ELSE data
             /\ inbuf' = xPc.buf
    /\ UNCHANGED <<deviceLine, device, tasks, config, job, phase, _sensitivity_interval,
                   _deviceinfo_interval>>

\* The tube goes on counting between two polls
DeviceCounts ==
    /\ device.tubePulseCount = LinePc5
    /\ device' = [device EXCEPT !.tubePulseCount = LinePc7]
    /\ UNCHANGED <<ioVars, callVars, coVars, deviceLine, inbuf, tasks, config, job>>

NextLate == LateSetup \/ LateRefresh \/ DeviceCounts

SpecLate == InitLate /\ [][NextLate]_vars

-----------------------------------------------------------------------------
(* Rates.  The coordinator polls a tube whose lifetime count is in the      *)
(* thousands and whose sensitivity is 150 or 1.5 CPM per uSv/h, at          *)
(* intervals whose quotients are not all exact in three decimals; any       *)
(* exchange may still raise or time out.                                    *)

Line1000 == <<"O", "K", " ", "1", "0", "0", "0", "\n">>
Line1010 == <<"O", "K", " ", "1", "0", "1", "0", "\n">>
Line150 == <<"O", "K", " ", "1", "5", "0", "\n">>
Line1p5 == <<"O", "K", " ", "1", ".", "5", "\n">>

RateElapsed == {0, 2, 3}

InitRates ==
    /\ InitRadProIO
    /\ deviceLine = <<>>
    /\ device = <<>>
    /\ config \in Configs
    /\ job = NoJob
    /\ inbuf = <<>>
    /\ tasks = NoTasks
    /\ InitCoordinator(config)

RatesSetup == start({LineId3}, {LineBattery3}, {Line150, LineTimeout})

RatesRefresh ==
    refresh({Line150, Line1p5}, {LineId3}, {LineBattery3},
            {Line1000, Line1010, LineTimeout}, RateElapsed)

NextRates == RatesSetup \/ RatesRefresh \/ async_close

SpecRates == InitRates /\ [][NextRates]_vars

-----------------------------------------------------------------------------
(* The averaging window over a longer run: enough cycles for a sample to    *)
(* be dropped, or a cycle to fail, between two samples that the window      *)
(* retains.  The refreshes of sensitivity and identity are not due within   *)
(* the run; any exchange may raise or time out.                             *)

MaxWindowCycles == 5

WindowConfigs == { <<1, 10, 10>> }

WindowElapsed == {0, 1, 2}

InitWindow ==
    /\ InitRadProIO
    /\ deviceLine = <<>>
    /\ device = <<>>
    /\ config \in WindowConfigs
    /\ job = NoJob
    /\ inbuf = <<>>
    /\ tasks = NoTasks
    /\ InitCoordinator(config)

WindowSetup == start({LineId3}, {LineBattery3}, {Line1p5})

WindowRefresh ==
    poll_cycle({Line1p5}, {LineId3}, {LineBattery3}, {LinePc5, LinePc7, LineTimeout},
               WindowElapsed, MaxWindowCycles)

NextWindow == WindowSetup \/ WindowRefresh

SpecWindow == InitWindow /\ [][NextWindow]_vars

-----------------------------------------------------------------------------
(* The driver.  _setup_coordinator calls async_setup and then the first     *)
(* refresh, awaiting each; afterwards the DataUpdateCoordinator's timer     *)
(* calls _async_update_data.  A coroutine runs until it awaits              *)
(* hass.async_add_executor_job and goes on when that job has finished; the  *)
(* executor has several threads, so jobs submitted by different coroutines  *)
(* would run at the same time.  The timer is armed when a refresh has       *)
(* finished and the coordinator has listeners, as sensor.py gives it once   *)
(* the entry is loaded.  A step is one job finishing and its coroutine      *)
(* running on to its next await.  An exchange may raise, and the device     *)
(* may fail to answer before the read timeout.                             *)

DriverConfigs == { <<2, 4, 4>>, <<2, 2, 6>> }

InitDriver ==
    /\ InitRadProIO
    /\ deviceLine = <<>>
    /\ device = HealthyDevice
    /\ config \in DriverConfigs
    /\ job = NoJob
    /\ inbuf = <<>>
    /\ tasks = NoTasks
    /\ InitCoordinator(config)

\* A coroutine: co its function, n the cycle's counter (0 for setup), todo
\* the jobs it has still to submit, the one it awaits first
Coroutine(co, n, todo) == [co |-> co, n |-> n, todo |-> todo]

\* async_setup: io.open, then the jobs of _read_device_info and _read_sensitivity
setup_jobs == <<"open", "deviceId", "deviceBatteryVoltage", "tubeSensitivity">>

\* Mutant: the first refresh is started while async_setup is still running
setup_awaited_not == tasks.entry \in {"setup", "setup_done"}

\* `await coordinator.async_setup()` has returned
setup_awaited == tasks.entry = "setup_done"

\* _setup_coordinator: `hass.data[DOMAIN][entry_id] = coordinator` and
\* `await coordinator.async_setup()`
EntryCallsSetup ==
    /\ tasks.entry = "new"
    /\ tasks' = [tasks EXCEPT !.entry = "setup", !.registered = TRUE,
                              !.running = @ \cup {Coroutine("async_setup", 0, setup_jobs)}]
    /\ UNCHANGED <<ioVars, callVars, coVars, deviceLine, device, inbuf, config, job>>

\* A cycle is called: the counter is incremented and the first job submitted
CycleCalled(t) ==
    /\ _update_counter < MaxCycles
    /\ _update_counter' = _update_counter + 1
    /\ tasks' = [t EXCEPT !.running = @ \cup {Coroutine("_async_update_data",
                                                        _update_counter + 1,
                                                        due_keys(_update_counter + 1))}]
    /\ UNCHANGED <<ioVars, callVars, deviceLine, device, inbuf, config, job, phase,
                   device_info, _prev_pulsecount, _prev_ts, _sensitivity, _samples,
                   _sensitivity_interval, _deviceinfo_interval, data, locals, clock>>

\* _setup_coordinator: `await coordinator.async_config_entry_first_refresh()`
EntryCallsFirstRefresh ==
    /\ setup_awaited
    /\ tasks.entry /= "first_refresh"
    /\ phase \in {"new", "ready"}
    /\ CycleCalled([tasks EXCEPT !.entry = "first_refresh"])

\* The refresh timer fires
TimerFires ==
    /\ tasks.timer
    /\ CycleCalled([tasks EXCEPT !.timer = FALSE])

\* The job a coroutine awaits, run by the executor from start to end
job_result(c, o, now) ==
    IF c.todo[1] = "open" THEN open(Machine, o.open)
    ELSE LET a == get(Machine, c.todo[1], o)
         IN IF a.exc /= "none" THEN a ELSE store(a, c.todo[1], a.ret, now)

\* What the end of a coroutine makes of the driver: _setup_coordinator goes
\* on or raises, and a refresh that has finished arms the timer if the entry
\* is loaded
ended(c, ok) ==
    IF c.co = "async_setup"
    THEN [tasks EXCEPT !.entry = IF ok THEN "setup_done" ELSE "failed",
                       !.running = @ \ {c}]
    ELSE IF tasks.entry = "first_refresh"
    THEN [tasks EXCEPT !.entry = IF ok THEN "loaded" ELSE "failed",
                       !.timer = ok, !.running = @ \ {c}]
    ELSE [tasks EXCEPT !.timer = tasks.entry = "loaded", !.running = @ \ {c}]

\* The executor job a coroutine awaits finishes, and the coroutine runs on:
\* to its next await, or to its end
JobFinishes ==
    \E c \in tasks.running :
       /\ CanOpen
       /\ \E o \in (IF c.todo[1] = "open"
                    THEN {Outcome(TRUE, "ok", <<>>), Outcome(FALSE, "ok", <<>>)}
                    ELSE Outcomes({device[c.todo[1]], LineTimeout}, serial = None)) :
          \E now \in {IF c.todo[1] = "tubePulseCount" THEN clock + 1 ELSE clock} :
          \E m \in {job_result(c, o, now)} :
             IF m.exc = "none" /\ Len(c.todo) > 1
             THEN /\ Install(c.co, m)
                  /\ tasks' = [tasks EXCEPT
                                  !.running = (@ \ {c})
                                      \cup {Coroutine(c.co, c.n, Tail(c.todo))}]
                  /\ UNCHANGED <<phase, data, clock>>
             ELSE /\ Install(c.co, IF c.co = "async_setup" THEN m ELSE reraise(m))
                  /\ tasks' = ended(c, m.exc = "none")
                  /\ phase' = IF c.co /= "async_setup" THEN phase
                              ELSE IF m.exc = "none" THEN "ready" ELSE "setup_failed"
                  /\ data' = IF c.co /= "async_setup" /\ m.exc = "none" THEN m.ret ELSE data
                  /\ clock' = IF m.locals.now /= None THEN now ELSE clock
    /\ UNCHANGED <<deviceLine, device, inbuf, config, job, _sensitivity_interval,
                   _deviceinfo_interval, _update_counter>>

\* async_setup_entry (async_setup for YAML): _setup_coordinator has raised;
\* the except clause logs the error and the function returns
EntryHandlesFailure ==
    /\ tasks.entry = "failed"
    /\ tasks' = [tasks EXCEPT !.entry = "not_loaded"]
    /\ UNCHANGED <<ioVars, callVars, coVars, deviceLine, device, inbuf, config, job>>

NextDriver ==
    \/ EntryCallsSetup
    \/ EntryCallsFirstRefresh
    \/ TimerFires
    \/ JobFinishes
    \/ EntryHandlesFailure
    \/ DeviceCounts

SpecDriver == InitDriver /\ [][NextDriver]_vars

-----------------------------------------------------------------------------
(* Properties of the poll cycle *)

\* A step that is one run of _async_update_data
CycleStep == call' = "_async_update_data" /\ _update_counter' = _update_counter + 1

RequestOf(key) == <<"GET", " ", key, "\n">>
Requested(log, key) ==
    \E i \in DOMAIN log : log[i].op = "write" /\ log[i].data = RequestOf(key)
LastRequest(log) ==
    LET W == {i \in DOMAIN log : log[i].op = "write"}
    IN IF W = {} THEN <<>> ELSE log[CHOOSE i \in W : \A j \in W : j <= i].data

\* The cycle ended because an exchange raised (transport error or failed reopen)
ExchangeRaised(c) == c /= <<>> /\ c[1] \in {"RadProIOError", "SerialException"}

\* The cycle of the current counter value refreshes sensitivity or device info
AuxDue == \/ _update_counter % _sensitivity_interval = 0
          \/ _update_counter % _deviceinfo_interval = 0

RollingStateUnchanged ==
    /\ _prev_pulsecount' = _prev_pulsecount
    /\ _prev_ts' = _prev_ts
    /\ _samples' = _samples

\* C1 (as claimed): a cycle in which an exchange raises RadProIOError raises
\* UpdateFailed, returns no snapshot, and leaves the rolling poll state, the
\* device identity and the published snapshot as they were.
C1_TransportFailureChangesNothing ==
    [][(CycleStep /\ cause' /= <<>> /\ cause'[1] = "RadProIOError") =>
          /\ exc' = "UpdateFailed"
          /\ ret' = None
          /\ RollingStateUnchanged
          /\ device_info' = device_info
          /\ data' = data]_vars

\* C2 (as claimed): whatever the auxiliary reads of a cycle return or raise,
\* the cycle goes on to request tubePulseCount.
C2_AuxiliaryNeverEndsCycle ==
    [][(CycleStep /\ AuxDue') => Requested(ops', "tubePulseCount")]_vars

\* C2 (amended): no value RETURNED by an auxiliary read ends the cycle: unless
\* an exchange raises, tubePulseCount is requested; a cycle fails only because
\* an exchange raised or because of the tubePulseCount payload; and the
\* tubePulseCount read fails the cycle whenever it raises, yields no value or
\* yields a non-integer, and only then.
C2_ReturnedAuxiliaryValuesNeverEndCycle ==
    [][CycleStep =>
          /\ exc' \in {"none", "UpdateFailed"}
          /\ ~ExchangeRaised(cause') => Requested(ops', "tubePulseCount")
          /\ (exc' = "UpdateFailed" /\ ~ExchangeRaised(cause')) =>
                /\ LastRequest(ops') = RequestOf("tubePulseCount")
                /\ rx' \in {Some(LineTimeout), Some(LinePcEmpty), Some(LinePcDecimal)}
          /\ (Requested(ops', "tubePulseCount") /\ ~ExchangeRaised(cause')) =>
                (exc' = "UpdateFailed" <=> rx' \notin {Some(LinePc5), Some(LinePc7)})
          /\ ExchangeRaised(cause') => exc' = "UpdateFailed"]_vars

\* C2 witness: a cycle that re-read tubeSensitivity, got nothing usable from
\* it, and still returned a snapshot
C2_Witness ==
    /\ call = "_async_update_data" /\ exc = "none"
    /\ Requested(ops, "tubeSensitivity")
    /\ _sensitivity = None

CountOf(line) == IF line = LinePc5 THEN 5 ELSE 7

IsSuffixOf(t, u) == Len(t) <= Len(u) /\ t = SubSeq(u, Len(u) - Len(t) + 1, Len(u))

C3_Step ==
    (CycleStep /\ exc' = "none") =>
       LET count == CountOf(Val(rx'))
           now == clock'
       IN /\ _prev_pulsecount' = Some(count)
          /\ _prev_ts' = Some(now)
          /\ IF /\ _prev_pulsecount /= None
                /\ _prev_ts /= None
                /\ now - Val(_prev_ts) > 0
                /\ count - Val(_prev_pulsecount) >= 0
             THEN /\ _samples' /= <<>>
                  /\ _samples'[Len(_samples')] =
                        <<now, count - Val(_prev_pulsecount), now - Val(_prev_ts)>>
                  /\ IsSuffixOf(SubSeq(_samples', 1, Len(_samples') - 1), _samples)
             ELSE _samples' = _samples

C3_EntriesValid == \A i \in DOMAIN _samples : _samples[i][3] > 0 /\ _samples[i][2] >= 0

\* C3: a cycle that reads an integer count appends <<now, dp, dt>> exactly when
\* a previous pair exists and dt > 0 and dp >= 0, and otherwise leaves _samples
\* alone; either way it stores the count and time just read; so every entry of
\* _samples has dt > 0 and dp >= 0.
C3_SampleAdmission == [](C3_EntriesValid) /\ [][C3_Step]_vars

\* C3 witness: a sample was dropped for dp < 0 while the window holds an
\* earlier sample, and the previous pair advanced to the count just read
C3_Witness ==
    /\ call = "_async_update_data" /\ exc = "none"
    /\ locals.dp /= None /\ Val(locals.dp) < 0
    /\ _samples /= <<>>
    /\ _prev_pulsecount = locals.pulsecount
    /\ _prev_ts = Some(clock)

\* C4: the entries of _samples are in strictly increasing timestamp order and
\* none is older than AVERAGING_WINDOW_S before the newest.
C4_WindowOrderedAndRecent ==
    /\ \A i, j \in DOMAIN _samples : i < j => _samples[i][1] < _samples[j][1]
    /\ \A i \in DOMAIN _samples :
          _samples[i][1] >= _samples[Len(_samples)][1] - 5

\* C4 witness: a cycle inserted a sample and evicted an older one
C4_Witness ==
    /\ call = "_async_update_data" /\ exc = "none"
    /\ locals.evicted >= 1
    /\ _samples /= <<>>


\* The state right after a cycle that returned a snapshot
AfterSnapshot == call = "_async_update_data" /\ exc = "none"

Has(d, k) == k \in DOMAIN d

\* usvh is present exactly when the stored sensitivity is known and > 0 and
\* cpm was computed in this cycle
UsvhPresence ==
    AfterSnapshot =>
       (Has(Val(ret), "usvh") <=>
           /\ _sensitivity /= None
           /\ Val(_sensitivity).n > 0
           /\ Has(Val(ret), "cpm")
           /\ locals.cpm /= None)

\* C5 (as claimed): usvh is present iff the sensitivity is known and > 0 and
\* cpm was computed this cycle, and then equals cpm / sensitivity:
\* (usvh / 1000) * sensitivity = cpm for the unrounded cpm.
C5_UsvhIsExactQuotient ==
    /\ UsvhPresence
    /\ (AfterSnapshot /\ Has(Val(ret), "usvh")) =>
          Val(ret)["usvh"] * Val(_sensitivity).n * Val(locals.cpm).d
             = 1000 * Val(locals.cpm).n * Val(_sensitivity).d

\* C5 (amended): usvh is present iff the sensitivity is known and > 0 and cpm
\* was computed this cycle, and then is the unrounded cpm divided by the
\* sensitivity, rounded to 3 decimals: |usvh - cpm / sensitivity| <= 0.0005.
C5_UsvhIsRoundedQuotient ==
    /\ UsvhPresence
    /\ (AfterSnapshot /\ Has(Val(ret), "usvh")) =>
          LET den == Val(_sensitivity).n * Val(locals.cpm).d
              num == 1000 * Val(locals.cpm).n * Val(_sensitivity).d
          IN 2 * Abs(Val(ret)["usvh"] * den - num) <= den

\* C5 witness: a snapshot with usvh whose exact quotient has more than 3 decimals
C5_Witness ==
    /\ AfterSnapshot
    /\ Has(Val(ret), "usvh")
    /\ (1000 * Val(locals.cpm).n * Val(_sensitivity).d)
          % (Val(_sensitivity).n * Val(locals.cpm).d) /= 0

\* C6: a cycle whose tubePulseCount read yields no value (timeout or empty
\* payload) or a non-integer payload raises UpdateFailed, returns and publishes
\* no snapshot, and leaves _prev_pulsecount, _prev_ts and _samples unchanged.
C6_BadPulseCountFailsCycle ==
    [][(/\ CycleStep
        /\ LastRequest(ops') = RequestOf("tubePulseCount")
        /\ ~ExchangeRaised(cause')
        /\ rx' \in {Some(LineTimeout), Some(LinePcEmpty), Some(LinePcDecimal)}) =>
          /\ exc' = "UpdateFailed"
          /\ ret' = None
          /\ data' = data
          /\ RollingStateUnchanged]_vars

\* C6 witness: a non-integer payload failed a cycle that had a previous pair
\* and a sample to preserve
C6_Witness ==
    /\ call = "_async_update_data" /\ exc = "UpdateFailed"
    /\ rx = Some(LinePcDecimal)
    /\ _prev_pulsecount /= None
    /\ _samples /= <<>>

\* The value v is n / d rounded to the nearest multiple of 1 / scale
RoundedTo(v, scale, n, d) == 2 * Abs(v * d - scale * n) <= d

\* C7: a returned snapshot always has pulse_count and nothing but pulse_count,
\* cps, cpm and usvh; cps and cpm come together, only when this cycle admitted
\* a sample and the window's total duration is > 0, and are the window's rate,
\* not a placeholder; a first cycle, or one whose sample is dropped, returns
\* pulse_count only, whatever the window still holds.
C7_SnapshotHoldsOnlyComputedFields ==
    [][(CycleStep /\ exc' = "none") =>
          LET d == Val(ret')
              tp == SumField(_samples', 2)
              tt == SumField(_samples', 3)
              dropped == \/ _prev_ts = None
                         \/ _prev_pulsecount = None
                         \/ clock' - Val(_prev_ts) <= 0
                         \/ CountOf(Val(rx')) - Val(_prev_pulsecount) < 0
          IN /\ Has(d, "pulse_count")
             /\ d["pulse_count"] = CountOf(Val(rx'))
             /\ DOMAIN d \subseteq {"pulse_count", "cps", "cpm", "usvh"}
             /\ Has(d, "cps") <=> Has(d, "cpm")
             /\ Has(d, "usvh") => Has(d, "cpm")
             /\ Has(d, "cps") =>
                   /\ _samples' /= _samples
                   /\ tt > 0
                   /\ RoundedTo(d["cps"], 1000, tp, tt)
                   /\ RoundedTo(d["cpm"], 10, 60 * tp, tt)
             /\ dropped => DOMAIN d = {"pulse_count"}]_vars

\* C7 witness: a cycle dropped its sample (dt = 0) while the window holds an
\* earlier sample, and returned pulse_count only
C7_Witness ==
    /\ AfterSnapshot
    /\ locals.dt = Some(0)
    /\ _samples /= <<>>
    /\ DOMAIN Val(ret) = {"pulse_count"}


-----------------------------------------------------------------------------
(* Properties of RadProIO *)

\* A step that is one call of RadProIO.query, through get or set
QueryStep == call' \in {"get", "set"}

AfterQuery == call \in {"get", "set"}

Uses(log, h) == \E i \in DOMAIN log : log[i].op \in {"write", "readline"} /\ log[i].h = h

C8_Step ==
    QueryStep =>
       \* a handle on which an exchange failed is not used again
       /\ \A h \in failed : ~Uses(ops', h)
       \* with no connection held, the call opens one before it writes, and
       \* writes to nothing but the connection it opened
       /\ serial = None =>
             /\ ops' /= <<>>
             /\ ops'[1].op \in {"open", "open_failed"}
             /\ \A i \in DOMAIN ops' :
                   ops'[i].op \in {"write", "readline"} =>
                      (ops'[1].op = "open" /\ ops'[i].h = ops'[1].h /\ ops'[i].h \notin isOpen)

\* C8: after a query fails on write or read the instance holds no connection;
\* the next query opens a new connection before it writes anything; a handle
\* on which an exchange failed is never written to or read from again.
C8_FailedHandleIsDropped ==
    /\ []((AfterQuery /\ exc = "RadProIOError") => serial = None)
    /\ [][C8_Step]_vars

\* C8 witness: after an exchange failed on one handle, a query completed an
\* exchange on a newly opened one
C8_Witness ==
    /\ AfterQuery /\ exc = "none"
    /\ failed /= {}
    /\ ops /= <<>> /\ ops[1].op = "open"
    /\ Uses(ops, ops[1].h)

\* C9 (as claimed): a query returns a response or raises RadProIOError carrying
\* its cause, and an I/O failure at any step, opening the port included,
\* surfaces as RadProIOError and as no other exception type.
C9_QueryRaisesOnlyRadProIOError ==
    AfterQuery =>
       /\ exc \in {"none", "RadProIOError"}
       /\ exc = "RadProIOError" => (ret = None /\ cause /= <<>>)

\* str.strip(), stated by position: from the first to the last character that
\* is not whitespace
Trimmed(t) ==
    LET I == {i \in DOMAIN t : t[i] \notin {" ", "\t", "\n", "\r"}}
    IN IF I = {} THEN <<>>
       ELSE SubSeq(t, CHOOSE i \in I : \A j \in I : i <= j,
                      CHOOSE i \in I : \A j \in I : j <= i)

\* The text of the line the device sent: its ASCII characters
Text(line) == SelectSeq(line, LAMBDA c : c /= "0x80")

\* C10: for a line read without I/O error, an empty read returns None; a line
\* whose trimmed text does not start with "OK" returns None; a line that does
\* returns the trimmed text without its first three characters, trimmed again;
\* "OK 42" gives "42" and "ERR bad key" gives None.
C10_ResponseParsing ==
    (AfterQuery /\ exc = "none") =>
       LET t == Trimmed(Text(deviceLine))
       IN /\ rx = Some(deviceLine)
          /\ deviceLine = <<>> => ret = None
          /\ (Len(t) < 2 \/ t[1] /= "O" \/ t[2] /= "K") => ret = None
          /\ (Len(t) >= 2 /\ t[1] = "O" /\ t[2] = "K") =>
                ret = Some(Trimmed(SubSeq(t, 4, Len(t))))
          /\ deviceLine = LineOK42 => ret = Some(<<"4", "2">>)
          /\ deviceLine = LineERR => ret = None

\* C10 witness: the line "OK 42" was read and "42" returned
C10_Witness ==
    /\ AfterQuery /\ exc = "none"
    /\ deviceLine = LineOK42
    /\ ret = Some(<<"4", "2">>)

\* A step that is one call of RadProIO.close, directly or through async_close
CloseStep == call' \in {"close", "async_close"}

AfterClose == call \in {"close", "async_close"}

C11_Step ==
    CloseStep =>
       /\ exc' = "none"
       /\ ret' = None
       /\ serial' = None
       /\ nOpened' = nOpened
       /\ failed' = failed
       \* a held connection is closed, and nothing else is
       /\ isOpen' = IF serial = None THEN isOpen ELSE isOpen \ {Val(serial)}
       /\ serial = None => ops' = <<>>
       \* a second call in a row has no further effect
       /\ AfterClose => (ops' = <<>> /\ <<serial, nOpened, isOpen, failed>>' =
                                          <<serial, nOpened, isOpen, failed>>)

\* C11: close never raises and is idempotent: on a never-opened instance, on
\* an open one, after a failed exchange, or right after another close, it
\* leaves the instance holding no connection, and a close called right after
\* a close changes nothing.
C11_CloseIsIdempotent ==
    /\ [](AfterClose => (exc = "none" /\ serial = None))
    /\ [][C11_Step]_vars

\* C11 witness: close was called after a failed exchange had already dropped
\* the connection, and found nothing to close
C11_Witness ==
    /\ call = "close" /\ exc = "none"
    /\ failed /= {}
    /\ serial = None
    /\ ops = <<>>

-----------------------------------------------------------------------------
(* Properties of the auxiliary reads *)

\* A step that is one call of _read_device_info (the device does not change
\* its answers during it)
ReadInfoStep == call' = "_read_device_info" /\ device' = device

\* The payload the device's current answer to a key carries, if any
Payload(key) == parse_response(device[key])

HasPayload(key) == Payload(key) /= None /\ Val(Payload(key)) /= <<>>

Separators(t) == {i \in DOMAIN t : t[i] = ";"}

FieldCount(t) == Cardinality(Separators(t)) + 1

\* Position of the j-th ';' of t
SeparatorAt(t, j) ==
    CHOOSE i \in Separators(t) : Cardinality({x \in Separators(t) : x < i}) = j - 1

\* The k-th of the ';'-separated fields of t, for k <= FieldCount(t)
Field(t, k) ==
    SubSeq(t, IF k = 1 THEN 1 ELSE SeparatorAt(t, k - 1) + 1,
              IF k = FieldCount(t) THEN Len(t) ELSE SeparatorAt(t, k) - 1)

Identity(di) == <<di.hardware_id, di.software_id, di.device_id>>

C12_Step ==
    ReadInfoStep =>
       LET t == Val(Payload("deviceId"))
       IN /\ exc' = "none"
          /\ ~HasPayload("deviceId") => Identity(device_info') = Identity(device_info)
          /\ (HasPayload("deviceId") /\ FieldCount(t) >= 3) =>
                Identity(device_info') = <<Some(Trimmed(Field(t, 1))),
                                           Some(Trimmed(Field(t, 2))),
                                           Some(Trimmed(Field(t, 3)))>>
          /\ (HasPayload("deviceId") /\ FieldCount(t) = 2) =>
                Identity(device_info') = Identity(device_info)

\* C12: a non-empty deviceId payload with 3 or more ';'-separated fields sets
\* hardware_id, software_id and device_id to its trimmed fields 0, 1 and 2 and
\* ignores the rest; one with exactly 2 fields changes none of the three; an
\* empty or missing payload changes none of them; none of these cases raises.
C12_DeviceIdFields == [][C12_Step]_vars

\* C12 witness: the payload " A ;B;C;D" of four fields was read
C12_Witness ==
    /\ call = "_read_device_info" /\ exc = "none"
    /\ Payload("deviceId") = Some(<<"A", " ", ";", "B", ";", "C", ";", "D">>)
    /\ Identity(device_info) = <<Some(<<"A">>), Some(<<"B">>), Some(<<"C">>)>>

OneField == HasPayload("deviceId") /\ FieldCount(Val(Payload("deviceId"))) = 1

\* C13 (as claimed): after a deviceId payload of exactly one field, device_id
\* is the trimmed payload and hardware_id and software_id are unset, whatever
\* identity earlier reads had stored.
C13_OneFieldLeavesOthersUnset ==
    [][(ReadInfoStep /\ OneField) =>
          /\ exc' = "none"
          /\ device_info'.device_id = Some(Trimmed(Val(Payload("deviceId"))))
          /\ device_info'.hardware_id = None
          /\ device_info'.software_id = None]_vars

\* C13 (amended): a deviceId payload of exactly one field sets device_id to
\* the trimmed payload and leaves hardware_id and software_id as they were.
C13_OneFieldSetsDeviceIdOnly ==
    [][(ReadInfoStep /\ OneField) =>
          /\ exc' = "none"
          /\ device_info'.device_id = Some(Trimmed(Val(Payload("deviceId"))))
          /\ device_info'.hardware_id = device_info.hardware_id
          /\ device_info'.software_id = device_info.software_id]_vars

\* C13 witness: the bare identifier "L" was read after an earlier read had
\* stored a three-field identity
C13_Witness ==
    /\ call = "_read_device_info" /\ exc = "none"
    /\ Payload("deviceId") = Some(<<"L">>)
    /\ device_info.device_id = Some(<<"L">>)
    /\ device_info.hardware_id /= None
    /\ device_info.software_id /= None

\* A step that is one call of _read_sensitivity
ReadSensitivityStep == call' = "_read_sensitivity" /\ device' = device

\* The device's answer to a key carries a payload that float() accepts
NumericPayload(key) == HasPayload(key) /\ float_ok(Val(Payload(key)))

C15_Step ==
    /\ ReadSensitivityStep =>
          /\ exc' = "none"
          /\ _sensitivity' = IF NumericPayload("tubeSensitivity")
                             THEN Some(float(Val(Payload("tubeSensitivity"))))
                             ELSE _sensitivity
          /\ device_info' = device_info
    /\ ReadInfoStep =>
          /\ exc' = "none"
          /\ device_info'.battery_voltage =
                IF NumericPayload("deviceBatteryVoltage")
                THEN Some(float(Val(Payload("deviceBatteryVoltage"))))
                ELSE device_info.battery_voltage
          /\ _sensitivity' = _sensitivity

\* C15: a refresh read that returns no value or a payload that is not a
\* number leaves the stored value unchanged: _sensitivity changes only when
\* tubeSensitivity returns a number, battery_voltage only when
\* deviceBatteryVoltage returns a number, and then to that number, whatever
\* the deviceId payload of the same refresh was.
C15_RefreshKeepsValueUnlessNumeric == [][C15_Step]_vars

\* C15 witness: the battery voltage was stored by a read whose deviceId
\* payload had two fields, no deviceId payload having ever been usable, and a
\* stored sensitivity has survived
C15_Witness ==
    /\ call = "_read_device_info" /\ exc = "none"
    /\ Payload("deviceId") = Some(<<"A", ";", "B">>)
    /\ Identity(device_info) = <<None, None, None>>
    /\ device_info.battery_voltage = Some(Ratio(3, 1))
    /\ ~NumericPayload("tubeSensitivity")
    /\ _sensitivity = Some(Ratio(3, 2))

-----------------------------------------------------------------------------
(* Properties of the refresh schedule *)

\* A step that is one run of _async_update_data
PollStep == call' = "_async_update_data"

\* The request lines written to the port by a call, in order
Requests(log) ==
    LET W == SelectSeq(log, LAMBDA e : e.op = "write")
    IN [i \in DOMAIN W |-> W[i].data]

IsPrefixOf(a, b) == Len(a) <= Len(b) /\ a = SubSeq(b, 1, Len(a))

\* The requests due in the cycle whose incremented counter is n
DueRequests(n) ==
    (IF n % _sensitivity_interval = 0 THEN <<RequestOf("tubeSensitivity")>> ELSE <<>>)
    \o (IF n % _deviceinfo_interval = 0
        THEN <<RequestOf("deviceId"), RequestOf("deviceBatteryVoltage")>> ELSE <<>>)
    \o <<RequestOf("tubePulseCount")>>

\* C14 (as claimed): every cycle increments _update_counter by 1; it requests
\* tubeSensitivity exactly when the incremented counter is a multiple of
\* _sensitivity_interval, and deviceId and deviceBatteryVoltage exactly when
\* it is a multiple of _deviceinfo_interval; the order of the requests is
\* sensitivity, identity, battery, tubePulseCount.
C14_RefreshExactlyWhenDue ==
    [][PollStep =>
          /\ _update_counter' = _update_counter + 1
          /\ Requested(ops', "tubeSensitivity")
                <=> _update_counter' % _sensitivity_interval = 0
          /\ Requested(ops', "deviceId")
                <=> _update_counter' % _deviceinfo_interval = 0
          /\ Requested(ops', "deviceBatteryVoltage")
                <=> _update_counter' % _deviceinfo_interval = 0
          /\ IsPrefixOf(Requests(ops'), DueRequests(_update_counter'))]_vars

\* C14 (amended): every cycle increments _update_counter by 1, whether it
\* succeeds or fails; the requests it writes are, in order, a prefix of:
\* tubeSensitivity if the incremented counter is a multiple of
\* _sensitivity_interval, deviceId and deviceBatteryVoltage if it is a
\* multiple of _deviceinfo_interval, tubePulseCount; the whole of it unless
\* an exchange (or reopening the port) raised, which ends the cycle there.
C14_RefreshWhenDueUntilRaise ==
    [][PollStep =>
          /\ _update_counter' = _update_counter + 1
          /\ IsPrefixOf(Requests(ops'), DueRequests(_update_counter'))
          /\ ~ExchangeRaised(cause') => Requests(ops') = DueRequests(_update_counter')
          /\ Requests(ops') /= DueRequests(_update_counter') =>
                (exc' = "UpdateFailed" /\ ExchangeRaised(cause'))]_vars

\* C14 witness: a cycle in which both refreshes were due made its four
\* requests in order and returned a snapshot
C14_Witness ==
    /\ call = "_async_update_data" /\ exc = "none"
    /\ Requests(ops) = <<RequestOf("tubeSensitivity"), RequestOf("deviceId"),
                         RequestOf("deviceBatteryVoltage"), RequestOf("tubePulseCount")>>
    /\ _update_counter > 1
    /\ _sensitivity_interval > 1

\* The poll period in seconds: update_interval = max(1, interval_s)
PollPeriod == IF config[1] < 1 THEN 1 ELSE config[1]

\* c is max(1, period div poll): 1 when the period is shorter than the poll
\* period, and otherwise the c with c * poll <= period < (c + 1) * poll
IsRefreshCount(c, period, poll) ==
    /\ c >= 1
    /\ IF period < poll THEN c = 1
       ELSE c * poll <= period /\ period < (c + 1) * poll

C16_Counts ==
    /\ IsRefreshCount(_sensitivity_interval, config[2], PollPeriod)
    /\ IsRefreshCount(_deviceinfo_interval, config[3], PollPeriod)

C16_Step ==
    (PollStep /\ Requests(ops') /= <<>>) =>
       /\ config[2] < PollPeriod => Requests(ops')[1] = RequestOf("tubeSensitivity")
       /\ (config[3] < PollPeriod /\ ~ExchangeRaised(cause')) =>
             Requested(ops', "deviceId") /\ Requested(ops', "deviceBatteryVoltage")

\* C16: whatever integers the intervals are, zero and negative included, the
\* refresh counts are max(1, period div max(1, interval_s)), so both are >= 1
\* and the cycle's modulo is defined; and a refresh period shorter than the
\* poll period makes every cycle refresh.
C16_RefreshCountsAtLeastOne == [](C16_Counts) /\ [][C16_Step]_vars

\* C16 witness: constructed with interval_s <= 0 and a sensitivity period
\* below the poll period, the coordinator is past its second cycle and has
\* requested tubeSensitivity in it
C16_Witness ==
    /\ config[1] <= 0 /\ config[2] < 1
    /\ call = "_async_update_data"
    /\ _update_counter >= 2
    /\ Requested(ops, "tubeSensitivity")

-----------------------------------------------------------------------------
(* Properties of async_setup *)

\* A step that is one call of async_setup
SetupStep == call' = "async_setup"

Opens(log) == SelectSeq(log, LAMBDA e : e.op \in {"open", "open_failed"})

SetupRequests ==
    <<RequestOf("deviceId"), RequestOf("deviceBatteryVoltage"), RequestOf("tubeSensitivity")>>

C17_Step ==
    SetupStep =>
       \* the port is opened first, and once
       /\ ops' /= <<>>
       /\ ops'[1].op \in {"open", "open_failed"}
       /\ Len(Opens(ops')) = 1
       \* then identity, battery and sensitivity are requested, once each, in
       \* that order, up to the first exchange that raises
       /\ IsPrefixOf(Requests(ops'), SetupRequests)
       /\ exc' = "none" <=> (ops'[1].op = "open" /\ failed' = failed)
       /\ exc' = "none" => (Requests(ops') = SetupRequests /\ phase' = "ready")
       \* a port that cannot be opened: nothing is requested
       /\ ops'[1].op = "open_failed" => (exc' = "SerialException" /\ Requests(ops') = <<>>)
       \* an exchange that raises: setup raises it, on the handle it opened,
       \* and requests nothing more
       /\ failed' /= failed =>
             /\ exc' = "RadProIOError"
             /\ failed' = failed \cup {ops'[1].h}
             /\ ops'[Len(ops')].op \in {"write", "readline"}
             /\ serial' = None
       /\ exc' /= "none" => phase' = "setup_failed"

\* C17: async_setup opens the port, then requests deviceId,
\* deviceBatteryVoltage and tubeSensitivity, each once and in that order; if
\* opening the port or an exchange fails, async_setup raises that failure
\* and does nothing more: no reopening, no further request.
C17_SetupRaisesWithoutRetry == [][C17_Step]_vars

\* C17 witness: the identity read went through and the tubeSensitivity
\* exchange raised, which async_setup raised to its caller
C17_Witness ==
    /\ call = "async_setup" /\ exc = "RadProIOError"
    /\ Requests(ops) = SetupRequests
    /\ device_info.device_id /= None
    /\ phase = "setup_failed"

-----------------------------------------------------------------------------
(* Properties of shutdown *)

Exchanges(log) == SelectSeq(log, LAMBDA e : e.op \in {"write", "readline"})

\* C18 (as claimed): once async_close has been called no exchange takes
\* place and the port is not opened again, and once close() has completed
\* the RadProIO holds no connection.
C18_NothingRunsAfterClose ==
    /\ [](job.closed = "done" => serial = None)
    /\ [][phase = "closed" =>
             /\ Exchanges(ops') = Exchanges(ops)
             /\ nOpened' = nOpened]_vars

\* The query in flight returns to the cycle, or raises
QueryEnds ==
    /\ job.q \in {"write", "readline", "reading"}
    /\ job'.q \in {"check", "idle"}

\* C19 (as claimed): a query during whose exchange close() closed the port
\* or dropped the reference ends by raising RadProIOError, and its cycle
\* with UpdateFailed.
C19_ClosedQueryRaises ==
    [][(QueryEnds /\ job.hit) =>
          /\ exc' = "UpdateFailed"
          /\ cause' /= <<>>
          /\ cause'[1] = "RadProIOError"]_vars

-----------------------------------------------------------------------------
(* Properties of late answers *)

\* A step that is one call of async_setup or of _async_update_data
ReadingStep == call' \in {"async_setup", "_async_update_data"} /\ device' = device

\* The bytes the last query of the call read are the device's answer to the
\* request that query sent, unless its read timed out
LastAnswerIsOwn ==
    \A k \in DOMAIN device :
        (/\ LastRequest(ops') = RequestOf(k)
         /\ rx' /= None
         /\ Val(rx') /= <<>>) => Val(rx') = device[k]

\* C20: the value a query returns for a key is the device's response to that
\* very request: a line that belongs to an earlier request is never returned
\* as the answer to a later one, so whatever a call stores as sensitivity,
\* battery voltage, identity or pulse count comes from the device's answer
\* to the request for that key.
C20_AnswerBelongsToItsRequest ==
    [][ReadingStep =>
          /\ LastAnswerIsOwn
          /\ _sensitivity' /= _sensitivity =>
                _sensitivity' = Some(float(Val(Payload("tubeSensitivity"))))
          /\ device_info'.battery_voltage /= device_info.battery_voltage =>
                device_info'.battery_voltage
                    = Some(float(Val(Payload("deviceBatteryVoltage"))))
          /\ Identity(device_info') /= Identity(device_info) =>
                Identity(device_info')
                    = Identity(parse_device_id(device_info, Val(Payload("deviceId"))))
          /\ _prev_pulsecount' /= _prev_pulsecount =>
                _prev_pulsecount' = Some(int(Val(Payload("tubePulseCount"))))]_vars

-----------------------------------------------------------------------------
(* Properties of retrying *)

Count(seq, x) == Cardinality({i \in DOMAIN seq : seq[i] = x})

Reads(log) == SelectSeq(log, LAMBDA e : e.op = "readline")

\* The one line get(key) writes for some key, and the one line set writes
GetRequests == {RequestOf(k) : k \in IOKeys}
SetRequests == {<<"SET", " ", "tubeSensitivity", " ", "150", "\n">>}

\* Every read of the call comes directly after a write: one read per request
ReadsFollowWrites(log) ==
    \A i \in DOMAIN log :
        log[i].op = "readline" => (i > 1 /\ log[i - 1].op = "write")

\* The keys the coordinator asks for
Keys == {"tubeSensitivity", "deviceId", "deviceBatteryVoltage", "tubePulseCount"}

\* What a poll cycle or a setup does on the port: each key at most once,
\* one read at most per request, and in a cycle only the keys that are due
C21_CoordinatorStep ==
    /\ (CycleStep \/ call' = "async_setup") =>
          /\ \A k \in Keys : Count(Requests(ops'), RequestOf(k)) <= 1
          /\ \A i \in DOMAIN Requests(ops') :
                \E k \in Keys : Requests(ops')[i] = RequestOf(k)
          /\ ReadsFollowWrites(ops')
          /\ Len(Opens(ops')) <= 1
    /\ CycleStep =>
          /\ Requested(ops', "tubeSensitivity")
                => _update_counter' % _sensitivity_interval = 0
          /\ Requested(ops', "deviceId")
                => _update_counter' % _deviceinfo_interval = 0
          /\ Requested(ops', "deviceBatteryVoltage")
                => _update_counter' % _deviceinfo_interval = 0

\* get and set as claimed: exactly one request line, at most one line read
C21_QueryStepAsClaimed ==
    QueryStep =>
       /\ Len(Requests(ops')) = 1
       /\ Requests(ops')[1] \in (IF call' = "get" THEN GetRequests ELSE SetRequests)
       /\ Len(Reads(ops')) <= 1
       /\ ReadsFollowWrites(ops')

\* get and set: one request line unless the port could not be opened
C21_QueryStep ==
    QueryStep =>
       /\ Len(Requests(ops')) <= 1
       /\ Len(Requests(ops')) = 0
             <=> (serial = None /\ ops' = <<Op("open_failed", 0, <<>>)>>)
       /\ Len(Requests(ops')) = 1 =>
             Requests(ops')[1] \in (IF call' = "get" THEN GetRequests ELSE SetRequests)
       /\ Len(Reads(ops')) <= 1
       /\ ReadsFollowWrites(ops')
       /\ Len(Opens(ops')) <= 1

\* C21 (as claimed): no operation retries: each get(key) sends exactly one
\* request line "GET <key>" and each set(key, value) exactly one line
\* "SET <key> <value>", followed by at most one line read; a cycle requests
\* each key at most once, also after a failed or empty exchange, and a
\* refresh is requested only in a cycle the counter selects.
C21_ExactlyOneRequestPerCall ==
    [][C21_QueryStepAsClaimed /\ C21_CoordinatorStep]_vars

\* C21 (amended): a get or set that holds a connection or can open one
\* sends exactly one request line, and one that cannot open the port sends
\* none; at most one line is read, after the request; the rest as claimed.
C21_AtMostOneRequestPerCall ==
    [][C21_QueryStep /\ C21_CoordinatorStep]_vars

\* C21 witness: a cycle in which the sensitivity refresh was due ended with
\* no answer for tubePulseCount, having sent each of its two requests once
C21_Witness ==
    /\ call = "_async_update_data"
    /\ exc = "UpdateFailed"
    /\ cause = <<"UpdateFailed", "No response for tubePulseCount">>
    /\ Requests(ops) = <<RequestOf("tubeSensitivity"), RequestOf("tubePulseCount")>>
    /\ Len(Reads(ops)) = 2

-----------------------------------------------------------------------------
(* Properties of the published rates *)

\* The sum of field k over the first n entries of the window
RECURSIVE Total(_, _, _)
Total(samples, k, n) == IF n = 0 THEN 0 ELSE samples[n][k] + Total(samples, k, n - 1)

WindowPulses(samples) == Total(samples, 2, Len(samples))
WindowTime(samples) == Total(samples, 3, Len(samples))

\* A cycle that succeeded right after a cycle that succeeded, whose sample
\* was admitted with every earlier sample of the window still retained
SteadyStep ==
    /\ call = "_async_update_data" /\ exc = "none"
    /\ CycleStep /\ exc' = "none"
    /\ Len(_samples') = Len(_samples) + 1
    /\ SubSeq(_samples', 1, Len(_samples)) = _samples

\* The reads of the scenario: 1000 at t = 0, then 1010 at t = 2, with
\* sensitivity 150
ScenarioStep ==
    /\ SteadyStep
    /\ _samples = <<>>
    /\ _prev_pulsecount = Some(1000) /\ _prev_ts = Some(0)
    /\ rx' = Some(Line1010) /\ clock' = 2
    /\ _sensitivity' = Some(Ratio(150, 1))

\* cps = 5.0, cpm = 300.0 and usvh = 2.0, in 1/1000, 1/10 and 1/1000
ScenarioSnapshot(d) ==
    /\ DOMAIN d = {"pulse_count", "cps", "cpm", "usvh"}
    /\ d["pulse_count"] = 1010
    /\ d["cps"] = 5000
    /\ d["cpm"] = 3000
    /\ d["usvh"] = 2000

\* C22 (as claimed): when consecutive cycles succeed with all samples
\* admitted and retained, the published cps is the window's pulses divided by
\* the window's time, cpm is 60 times that, usvh is cpm divided by the
\* sensitivity; reads of 1000 at t = 0 and 1010 at t = 2 with sensitivity 150
\* publish cps = 5.0, cpm = 300.0 and usvh = 2.0.
C22_RateIsWindowQuotient ==
    [][SteadyStep =>
          LET d == Val(ret')
              tp == WindowPulses(_samples')
              tt == WindowTime(_samples')
          IN /\ Has(d, "cps") /\ Has(d, "cpm")
             /\ d["cps"] * tt = 1000 * tp
             /\ d["cpm"] * tt = 10 * 60 * tp
             /\ Has(d, "usvh") =>
                   d["usvh"] * tt * Val(_sensitivity').n
                      = 1000 * 60 * tp * Val(_sensitivity').d
             /\ ScenarioStep => ScenarioSnapshot(d)]_vars

\* C22 (amended): the published cps is that quotient rounded to 3 decimals,
\* cpm 60 times the quotient rounded to 1 decimal, and usvh the unrounded cpm
\* divided by the sensitivity rounded to 3 decimals; the scenario as claimed.
C22_RateIsRoundedWindowQuotient ==
    [][SteadyStep =>
          LET d == Val(ret')
              tp == WindowPulses(_samples')
              tt == WindowTime(_samples')
          IN /\ Has(d, "cps") /\ Has(d, "cpm")
             /\ RoundedTo(d["cps"], 1000, tp, tt)
             /\ RoundedTo(d["cpm"], 10, 60 * tp, tt)
             /\ Has(d, "usvh") =>
                   RoundedTo(d["usvh"], 1000, 60 * tp * Val(_sensitivity').d,
                             tt * Val(_sensitivity').n)
             /\ ScenarioStep => ScenarioSnapshot(d)]_vars

\* C22 witness: the scenario's second cycle has published its snapshot
C22_Witness ==
    /\ AfterSnapshot
    /\ ScenarioSnapshot(Val(ret))
    /\ _samples = << <<2, 10, 2>> >>
    /\ _prev_pulsecount = Some(1010) /\ _prev_ts = Some(2)
    /\ _sensitivity = Some(Ratio(150, 1))

-----------------------------------------------------------------------------
(* Properties of the connection's lifecycle *)

\* C23: every handle the instance opens is closed before the instance drops
\* or replaces its reference to it: at most one handle is open and not yet
\* closed at any time, none is once close() has returned, and a step that
\* changes self.serial leaves the handle it held closed.
C23_HandlesClosedBeforeDropped ==
    /\ [](Cardinality(isOpen) <= 1)
    /\ []((AfterClose /\ exc = "none") => isOpen = {})
    /\ [][(serial /= None /\ serial' /= serial) => Val(serial) \notin isOpen']_vars

-----------------------------------------------------------------------------
(* Properties of a failing cycle *)

\* The last operation of the call on the port
LastOp(log) == log[Len(log)]

\* The payload of the last line read, when the last exchange completed
LastPayload == parse_response(Val(rx'))

\* The last exchange of the cycle was the tubePulseCount one and completed
PrimaryRead ==
    /\ ops' /= <<>>
    /\ LastOp(ops').op = "readline"
    /\ LastOp(ops').h \notin failed'
    /\ LastRequest(ops') = RequestOf("tubePulseCount")
    /\ rx' /= None

\* An exchange of the cycle raised on write or on readline
TransportFailed ==
    /\ ops' /= <<>>
    /\ LastOp(ops').op \in {"write", "readline"}
    /\ LastOp(ops').h \in failed' \ failed

\* The port had to be reopened for an exchange and could not be
ReopenFailed == ops' /= <<>> /\ LastOp(ops').op = "open_failed"

C24_Step ==
    CycleStep =>
       /\ exc' \in {"none", "UpdateFailed"}
       \* a snapshot or UpdateFailed, never both, and no partial snapshot
       /\ exc' = "none" <=> ret' /= None
       /\ exc' = "none" => (data' = ret' /\ Has(Val(ret'), "pulse_count"))
       /\ exc' = "UpdateFailed" => (ret' = None /\ data' = data /\ cause' /= <<>>)
       \* each way of failing, and the cause UpdateFailed is raised from
       /\ TransportFailed =>
             (exc' = "UpdateFailed" /\ cause'[1] = "RadProIOError" /\ Len(cause') = 2)
       /\ ReopenFailed =>
             (exc' = "UpdateFailed" /\ cause'[1] = "SerialException" /\ Len(cause') = 2)
       /\ (PrimaryRead /\ ~TruthyStr(LastPayload)) =>
             /\ exc' = "UpdateFailed"
             /\ cause' = <<"UpdateFailed", "No response for tubePulseCount">>
       /\ (PrimaryRead /\ TruthyStr(LastPayload) /\ ~int_ok(Val(LastPayload))) =>
             /\ exc' = "UpdateFailed"
             /\ cause' = <<"UpdateFailed", "Invalid tubePulseCount", "ValueError">>
       \* and a cycle fails in no other way
       /\ exc' = "UpdateFailed" =>
             \/ TransportFailed
             \/ ReopenFailed
             \/ PrimaryRead /\ ~(TruthyStr(LastPayload) /\ int_ok(Val(LastPayload)))

\* C24: every way a poll cycle can fail surfaces as UpdateFailed and as
\* nothing else: a transport failure, a failure to reopen the port, a
\* missing or malformed tubePulseCount payload are each raised as
\* UpdateFailed from their cause; a cycle returns a snapshot or raises
\* UpdateFailed, never both, and a failed cycle returns and publishes nothing.
C24_FailuresSurfaceAsUpdateFailed == [][C24_Step]_vars

\* C24 witness: a cycle that had to reopen the port and could not has raised
\* UpdateFailed from the SerialException, with a snapshot of an earlier cycle
\* still published
C24_Witness ==
    /\ call = "_async_update_data"
    /\ exc = "UpdateFailed"
    /\ cause /= <<>> /\ cause[1] = "SerialException"
    /\ ret = None
    /\ data /= None

-----------------------------------------------------------------------------
(* Properties of the driver *)

\* C25: at most one exchange is in flight on the RadProIO at any time and
\* cycles never overlap: setup and each cycle await every job before they
\* submit the next, so each coroutine in flight has one job in flight, and
\* no job of a cycle is in flight together with a job of another cycle or of
\* setup.
C25_OneExchangeInFlight ==
    /\ Cardinality(tasks.running) <= 1
    /\ \A c \in tasks.running : c.todo /= <<>>
    /\ tasks.timer => tasks.running = {}

\* C25 witness: a cycle started by the timer is awaiting its last exchange,
\* after its earlier ones, with setup and the first refresh finished
C25_Witness ==
    /\ tasks.entry = "loaded"
    /\ \E c \in tasks.running :
          /\ c.co = "_async_update_data"
          /\ c.n = 2
          /\ c.todo = <<"tubePulseCount">>
          /\ Len(due_keys(2)) > 1

\* C26: if _setup_coordinator fails (the port cannot be opened, a setup
\* exchange raises, or the first refresh fails), then once async_setup_entry
\* has handled the failure no coordinator is registered under the entry id
\* and no connection opened during the attempt is left open.
C26_FailedSetupLeavesNothing ==
    tasks.entry = "not_loaded" => (~tasks.registered /\ isOpen = {})

-----------------------------------------------------------------------------
(* Properties of the intervals in the window *)

\* The time at which the interval of an entry (ts, dp, dt) starts
StartOf(e) == e[1] - e[3]

\* No interval of the window starts before the entry before it ends
NonOverlapping ==
    \A i \in 2..Len(_samples) : StartOf(_samples[i]) >= _samples[i - 1][1]

\* The window's total time is no more than the time from the start of its
\* oldest entry to the last reading of the clock
TotalTimeBounded ==
    _samples /= <<>> => WindowTime(_samples) <= clock - StartOf(_samples[1])

\* dt and dp are measured from the last count read successfully, which every
\* cycle that reads a count replaces, its sample admitted or dropped, and
\* which a failed cycle leaves as it was
C27_Step ==
    CycleStep =>
       /\ exc' = "none" =>
             /\ _prev_ts' = Some(clock')
             /\ _prev_pulsecount' = Some(Val(ret')["pulse_count"])
       /\ exc' /= "none" =>
             /\ _prev_ts' = _prev_ts
             /\ _prev_pulsecount' = _prev_pulsecount
             /\ _samples' = _samples
       /\ Len(_samples') > 0 /\ _samples' /= _samples =>
             LET e == _samples'[Len(_samples')]
             IN /\ _prev_ts /= None /\ _prev_pulsecount /= None
                /\ e[1] = clock'
                /\ StartOf(e) = Val(_prev_ts)
                /\ e[2] = Val(_prev_pulsecount') - Val(_prev_pulsecount)

\* C27: the intervals covered by the entries of _samples never overlap: each
\* entry starts no earlier than the entry before it ends, because dt is
\* measured from the last successfully read count, which advances when a
\* sample is dropped and stays when a cycle fails; so total_time never
\* exceeds the time from the start of the oldest retained sample to now.
C27_IntervalsNeverOverlap ==
    /\ [](NonOverlapping /\ TotalTimeBounded)
    /\ [][C27_Step]_vars

\* C27 witness: the window retains two samples with a gap between them, left
\* by a cycle that failed or dropped its sample
C27_Witness ==
    /\ Len(_samples) >= 2
    /\ StartOf(_samples[Len(_samples)]) > _samples[Len(_samples) - 1][1]
    /\ WindowTime(_samples) < clock - StartOf(_samples[1])

=============================================================================
